---- MODULE Spec2Model ----
(***************************************************************************)
(* Verification model of gaze-scribe-canvas: calibration metrics, the word *)
(* tracking service, the tracking page and the calibration modals.         *)
(*                                                                         *)
(* The module holds several specifications over one variable tuple; each   *)
(* specification drives one component and leaves the others at rest.       *)
(***************************************************************************)
EXTENDS Integers, Sequences, FiniteSets, TLC

VARIABLES
  \* ---- calibrationUtils.calculateCalibrationMetrics (pure function) ----
  mPoints,        \* argument calibrationPoints
  mSamples,       \* argument gazeSamples (one sample list per point)
  mResult,        \* the returned CalibrationResult, or NoResult before the call
  \* ---- services/gazeCloudService.ts ----
  cloudApi,          \* window.GazeCloudAPI is defined
  cloudAppended,     \* the script elements initialize has appended to the document
  cloudPending,      \* those of them that have neither loaded nor failed yet
  cloudInitialized,  \* isInitialized
  cloudInstalled,    \* setupCallbacks has assigned the On... members of the API
  cloudSetups,       \* how often setupCallbacks has assigned them
  cloudTracking,     \* isTracking of the service
  cloudCallbacks,    \* the callback fields that are not null
  cloudSignal,       \* the last thing that happened to the service
  cloudInvoked,      \* what that made the service call: callbacks, "resolve", "reject"
  \* ---- components/HeatmapOverlay.tsx ----
  heatPoints,        \* the gazePoints prop; coordinates are kept in half pixels
  heatContainer,     \* the container's bounding rectangle now
  canvasSize,        \* canvas.width and canvas.height as the effect last set them
  splatted,          \* the relativeX, relativeY of the points the last effect run added
                     \* to intensityMap, in that order, in half pixels
  maxIntensity,      \* the maximum the last effect run found
  \* ---- WordTrackingService ----
  wordBoundsMap,        \* Map<number, WordBounds>, as its entries in insertion order
  wordReadings,         \* Map<string, WordReading>, as its entries in insertion order
  wordReadingSequence,  \* WordReadingEvent[]
  lastGazedWordIndex,   \* number, -1 when none
  found,                \* <<>>, or the last findWordAtGazePosition call on the current bounds
  \* ---- TextDisplay (unnamed/part_002) and the container it measures ----
  renderedLayout,       \* the rendered layout of the container: its tokens with their rectangles
  containerRect,        \* left/top of the container's bounding rectangle
  textMounted,          \* the component is mounted, its effects have run
  displayedWordBounds,  \* state wordBounds: the rectangles the highlight is drawn from
  containerOffset,      \* state containerOffset
  highlightedWordIndex, \* prop highlightedWordIndex, -1 when nothing is highlighted
  \* ---- pages/Index.tsx ----
  isCalibrated, isTracking, showCalibration, gazePoints, isTrackingRef,
  gazePointsRef, isAnalyzing, analysisResult, analysisError,
  webgazer,             \* the WebGazer script: "loading", "loaded" or "failed"
  gazeListener,         \* the listener registered with webgazer.setGazeListener
  syncInterval,         \* the 500 ms setInterval of the sync effect is live
  showTimers,           \* pending setTimeout(() => setShowCalibration(true), 1000)
  listenerTimers,       \* pending setTimeout(restore tracking listener, 100)
  completeTimers,       \* pending setTimeout(onComplete, 500) of the modal
  apiKey,               \* VITE_GEMINI_API_KEY is configured
  inFlight,             \* requests awaiting the summarization service
  requestsSent,         \* number of requests issued to the service
  sourceCalls,          \* number of callbacks the gaze source has made
  clock,                \* Date.now() of the page, in ticks
  delivered,            \* valid samples the source delivered since the last start
  pageEvent,            \* the handler or callback that ran last
  downloads,            \* number of export files handed to the browser
  lastExport,           \* the object serialized into the last export file
  heldExports,          \* the export objects held by pending analysis calls
  \* ---- CalibrationModal, countdown-plus-stabilization version ----
  isOpen,                 \* prop isOpen
  phase,                  \* "idle" | "calibrating" | "complete"
  calibrationStep,
  countdownValue,         \* number | null
  isStabilizing,
  gazeSamplesRef,         \* GazeSample[], each tagged with the window it arrived in
  stabilizationStartRef,  \* null, or the time since it was set (Date.now() - ref)
  countdownTimerRef,      \* null, or the count of the interval the ref holds
  strayCountdowns,        \* live countdown intervals no ref holds, by their count
  advanceTimers,          \* pending 200 ms timeouts, by the step each captured
  doneTimers,             \* pending 500 ms timeouts of the last point
  calibrationListener,    \* the modal's listener is registered with webgazer
  hasWebgazer,            \* window.webgazer is defined
  lastRecorded,           \* point index of the last recordScreenPosition, -1 if none
  acceptedVia,            \* which caller of handleStabilized recorded it: "check", "click", "none"
  onCompleteCalls,        \* calls of onComplete since the last start
  \* ---- CalibrationModal, click-driven versions ----
  clickVariant,      \* "grid17": components/CalibrationModal.tsx, "grid9": its 9-point predecessor
  clickOpen,         \* prop isOpen
  clickStep,         \* calibrationStep
  isCalibrating,
  isPointReady,
  fixationTimerRef,  \* the 1.5 s fixation timeout is pending
  cornerOffset,      \* percent offset of the corner points, in hundredths
  webgazerReady,     \* isWebGazerReady()
  clickDoneTimers,   \* pending setTimeout(onComplete, 500)
  modalError,        \* error shown by the GazeCloud modal: "null", "denied" or "error"
  deniedInRun,       \* the source reported a camera denial since the last start
  clickRecorded,     \* point index of the last recordScreenPosition, -1 if none
  clickCompletes     \* calls of onComplete since the last start

cloudVars == <<cloudApi, cloudAppended, cloudPending, cloudInitialized, cloudSetups, cloudInstalled, cloudTracking,
               cloudCallbacks, cloudSignal, cloudInvoked>>
heatVars == <<heatPoints, heatContainer, canvasSize, splatted, maxIntensity>>
calVars  == <<mPoints, mSamples, mResult, cloudVars, heatVars>>
textVars == <<renderedLayout, containerRect, textMounted, displayedWordBounds,
              containerOffset, highlightedWordIndex>>
wordVars == <<wordBoundsMap, wordReadings, wordReadingSequence, lastGazedWordIndex,
              found, textVars>>
fileVars == <<downloads, lastExport>>
exportVars == <<fileVars, heldExports>>
pageVars == <<isCalibrated, isTracking, showCalibration, gazePoints, isTrackingRef,
              gazePointsRef, isAnalyzing, analysisResult, analysisError,
              webgazer, gazeListener, syncInterval, showTimers, listenerTimers,
              completeTimers, apiKey, inFlight, requestsSent, sourceCalls, clock,
              delivered, pageEvent, exportVars>>
recorded == <<lastRecorded, acceptedVia>>
stabVars == <<isOpen, phase, calibrationStep, countdownValue, isStabilizing,
              gazeSamplesRef, stabilizationStartRef, countdownTimerRef,
              strayCountdowns, advanceTimers, doneTimers, calibrationListener,
              hasWebgazer, recorded, onCompleteCalls>>
clickVars == <<clickVariant, clickOpen, clickStep, isCalibrating, isPointReady,
               fixationTimerRef, cornerOffset, webgazerReady, clickDoneTimers,
               clickRecorded, clickCompletes, modalError, deniedInRun>>
vars == <<calVars, wordVars, pageVars, stabVars, clickVars>>

(***************************************************************************)
(* Helpers                                                                  *)
(***************************************************************************)
RECURSIVE SumSeq(_)
SumSeq(s) == IF s = <<>> THEN 0 ELSE Head(s) + SumSeq(Tail(s))

RECURSIVE MaxSeq(_, _)
MaxSeq(s, acc) ==
  IF s = <<>> THEN acc
  ELSE MaxSeq(Tail(s), IF Head(s) > acc THEN Head(s) ELSE acc)

\* Integer square root (floor); exact on the perfect squares the inputs produce.
ISqrt(n) == CHOOSE r \in 0..n : r * r <= n /\ (r + 1) * (r + 1) > n

(***************************************************************************)
(* utils/calibrationUtils.ts                                                *)
(***************************************************************************)
\* JavaScript's Infinity and -Infinity, as sentinels outside the pixel range.
Infinity    == 1000000
NegInfinity == -1000000

NoResult == [quality |-> "none"]

\* A distance that adds the two coordinate differences
calculateDistance_Manhattan(p1, p2) ==
  (IF p2.x >= p1.x THEN p2.x - p1.x ELSE p1.x - p2.x)
  + (IF p2.y >= p1.y THEN p2.y - p1.y ELSE p1.y - p2.y)

\* calculateDistance: sqrt(dx^2 + dy^2)
calculateDistance(p1, p2) ==
  ISqrt((p2.x - p1.x) * (p2.x - p1.x) + (p2.y - p1.y) * (p2.y - p1.y))

\* calculateMean over integers whose mean is integral (sample coordinates)
calculateMean(values) ==
  IF Len(values) = 0 THEN 0 ELSE SumSeq(values) \div Len(values)

\* calculateMean kept as a fraction num/den (the mean of point errors)
calculateMeanQ(values) ==
  IF Len(values) = 0 THEN [num |-> 0, den |-> 1]
  ELSE [num |-> SumSeq(values), den |-> Len(values)]

\* calculateStdDev: sqrt(calculateMean(squaredDiffs)), kept as the fraction
\* under the root; with mean = num/den each squared difference is
\* (val * den - num)^2 / den^2
calculateStdDev(values) ==
  IF Len(values) = 0 THEN [radicandNum |-> 0, radicandDen |-> 1]
  ELSE LET mean == calculateMeanQ(values)
           squaredDiffs == [i \in 1..Len(values) |->
                              (values[i] * mean.den - mean.num)
                              * (values[i] * mean.den - mean.num)]
       IN [radicandNum |-> SumSeq(squaredDiffs),
           radicandDen |-> mean.den * mean.den * Len(values)]

\* A classification whose thresholds belong to the better class
determineQuality_InclusiveBounds(meanError) ==
  IF meanError.num <= 50 * meanError.den THEN "good"
  ELSE IF meanError.num <= 100 * meanError.den THEN "acceptable"
  ELSE "poor"

\* determineQuality, on a fraction: m < 50 good, m < 100 acceptable, else poor
determineQuality(meanError) ==
  IF meanError.num < 50 * meanError.den THEN "good"
  ELSE IF meanError.num < 100 * meanError.den THEN "acceptable"
  ELSE "poor"

\* Math.max(...allErrors): -Infinity for an empty list
MathMax(values) == MaxSeq(values, NegInfinity)

\* gazeSamples[index] || []
SamplesAt(gazeSamples, index) ==
  IF index <= Len(gazeSamples) THEN gazeSamples[index] ELSE <<>>

\* The error pushed for one calibration point (Infinity when it has no samples)
PointError(point, samples, screenWidth, screenHeight) ==
  IF Len(samples) = 0 THEN Infinity
  ELSE calculateDistance(
         [x |-> (screenWidth * point.x) \div 100,
          y |-> (screenHeight * point.y) \div 100],
         [x |-> calculateMean([i \in 1..Len(samples) |-> samples[i].x]),
          y |-> calculateMean([i \in 1..Len(samples) |-> samples[i].y])])

\* allErrors: the errors of the points that have samples, in point order
RECURSIVE AllErrors(_, _, _, _, _)
AllErrors(points, gazeSamples, w, h, i) ==
  IF i > Len(points) THEN <<>>
  ELSE LET samples == SamplesAt(gazeSamples, i)
           rest    == AllErrors(points, gazeSamples, w, h, i + 1)
       IN IF Len(samples) = 0 THEN rest
          ELSE <<PointError(points[i], samples, w, h)>> \o rest

calculateCalibrationMetrics(points, gazeSamples, screenWidth, screenHeight) ==
  LET pointErrors == [i \in 1..Len(points) |->
                        [point |-> i - 1,
                         error |-> PointError(points[i], SamplesAt(gazeSamples, i),
                                              screenWidth, screenHeight)]]
      allErrors == AllErrors(points, gazeSamples, screenWidth, screenHeight, 1)
      meanError == calculateMeanQ(allErrors)
  IN [meanError   |-> meanError,
      maxError    |-> MathMax(allErrors),
      stdDev      |-> calculateStdDev(allErrors),
      quality     |-> determineQuality(meanError),
      pointErrors |-> pointErrors]

(***************************************************************************)
(* services/wordTrackingService.ts                                          *)
(***************************************************************************)
\* A measured token of the container: text and bounding rectangle.
Token(w, x, y, width, height) ==
  [word |-> w, x |-> x, y |-> y, width |-> width, height |-> height]

\* The text layouts the container can have when extractWordBounds runs.
Layouts ==
  { <<Token("KTH", 0, 0, 10, 10), Token("University", 20, 0, 30, 10)>>,
    <<Token("KTH", 0, 0, 10, 10), Token("University", 0, 20, 30, 10),
      Token("is", 40, 20, 0, 10)>>,
    <<Token("University", 0, 0, 30, 10)>> }

\* wordKey = `${word}_${index}`
WordKey(wb) == <<wb.word, wb.index>>

\* Position of the entry of a Map (kept in insertion order) under a key, 0 if absent
MapPos(keys, key) ==
  IF \E i \in 1..Len(keys) : keys[i] = key
  THEN CHOOSE i \in 1..Len(keys) : keys[i] = key
  ELSE 0

\* Map.set: replace in place, or append
MapSet(map, keys, key, entry) ==
  LET pos == MapPos(keys, key)
  IN IF pos = 0 THEN Append(map, entry)
     ELSE [map EXCEPT ![pos] = entry]

BoundsKey(wb) == wb.index
ReadingKey(r) == <<r.word, r.wordIndex>>
BoundsKeys(map) == [i \in 1..Len(map) |-> BoundsKey(map[i])]
ReadingKeys(map) == [i \in 1..Len(map) |-> ReadingKey(map[i])]

\* An extraction that drops the tokens measured with an empty rectangle
RECURSIVE ExtractedWords_DropsEmpty(_, _)
ExtractedWords_DropsEmpty(layout, wordIndex) ==
  IF layout = <<>> THEN <<>>
  ELSE LET rect == Head(layout)
       IN IF rect.width > 0 /\ rect.height > 0
          THEN <<[word |-> rect.word, x |-> rect.x, y |-> rect.y,
                  width |-> rect.width, height |-> rect.height,
                  index |-> wordIndex]>>
               \o ExtractedWords_DropsEmpty(Tail(layout), wordIndex + 1)
          ELSE ExtractedWords_DropsEmpty(Tail(layout), wordIndex)

\* extractWordBounds: the tokens with non-negative size, indexed in reading order
RECURSIVE ExtractedWords(_, _)
ExtractedWords(layout, wordIndex) ==
  IF layout = <<>> THEN <<>>
  ELSE LET rect == Head(layout)
       IN IF rect.width >= 0 /\ rect.height >= 0
          THEN <<[word |-> rect.word, x |-> rect.x, y |-> rect.y,
                  width |-> rect.width, height |-> rect.height,
                  index |-> wordIndex]>>
               \o ExtractedWords(Tail(layout), wordIndex + 1)
          ELSE ExtractedWords(Tail(layout), wordIndex)

\* words.forEach((w) => this.wordBoundsMap.set(w.index, w))
RECURSIVE StoreBounds(_, _)
StoreBounds(map, words) ==
  IF words = <<>> THEN map
  ELSE StoreBounds(MapSet(map, BoundsKeys(map), BoundsKey(Head(words)), Head(words)), Tail(words))

\* trackGazeOnWord without the test for a previous word (lastGazedWordIndex !== -1)
TrackedReadings_NoPreviousTest(readings, lastIndex, wb, timestamp) ==
  LET key     == WordKey(wb)
      created == IF MapPos(ReadingKeys(readings), key) = 0
                 THEN Append(readings,
                        [word |-> wb.word, wordIndex |-> wb.index,
                         gazeTotalTime |-> 0, gazePointCount |-> 0,
                         firstGazeTime |-> timestamp, lastGazeTime |-> timestamp,
                         frequency |-> 1])
                 ELSE readings
      pos     == MapPos(ReadingKeys(created), key)
      reading == created[pos]
      bumped  == lastIndex # wb.index
  IN [created EXCEPT ![pos] =
        [reading EXCEPT !.gazePointCount = reading.gazePointCount + 1,
                        !.lastGazeTime = timestamp,
                        !.frequency = IF bumped THEN reading.frequency + 1
                                      ELSE reading.frequency]]

\* trackGazeOnWord counting a gaze point only when the gaze enters the word
TrackedReadings_CountsOnEntry(readings, lastIndex, wb, timestamp) ==
  LET key     == WordKey(wb)
      created == IF MapPos(ReadingKeys(readings), key) = 0
                 THEN Append(readings,
                        [word |-> wb.word, wordIndex |-> wb.index,
                         gazeTotalTime |-> 0, gazePointCount |-> 0,
                         firstGazeTime |-> timestamp, lastGazeTime |-> timestamp,
                         frequency |-> 1])
                 ELSE readings
      pos     == MapPos(ReadingKeys(created), key)
      reading == created[pos]
      bumped  == lastIndex # wb.index /\ lastIndex # -1
  IN [created EXCEPT ![pos] =
        [reading EXCEPT !.gazePointCount = IF lastIndex # wb.index
                                           THEN reading.gazePointCount + 1
                                           ELSE reading.gazePointCount,
                        !.lastGazeTime = timestamp,
                        !.frequency = IF bumped THEN reading.frequency + 1
                                      ELSE reading.frequency]]

\* trackGazeOnWord: the reading map after the call
TrackedReadings(readings, lastIndex, wb, timestamp) ==
  LET key     == WordKey(wb)
      created == IF MapPos(ReadingKeys(readings), key) = 0
                 THEN Append(readings,
                        [word |-> wb.word, wordIndex |-> wb.index,
                         gazeTotalTime |-> 0, gazePointCount |-> 0,
                         firstGazeTime |-> timestamp, lastGazeTime |-> timestamp,
                         frequency |-> 1])
                 ELSE readings
      pos     == MapPos(ReadingKeys(created), key)
      reading == created[pos]
      bumped  == lastIndex # wb.index /\ lastIndex # -1
  IN [created EXCEPT ![pos] =
        [reading EXCEPT !.gazePointCount = reading.gazePointCount + 1,
                        !.lastGazeTime = timestamp,
                        !.frequency = IF bumped THEN reading.frequency + 1
                                      ELSE reading.frequency]]

\* A rounding that drops the fraction
MathRound_Truncates(num, den) == num \div den

\* Math.round of the quotient num/den of a non-negative num and a positive den:
\* the nearest integer, a half rounded up
MathRound(num, den) == (2 * num + den) \div (2 * den)

\* calculateTimeMetrics: the reading map after the call
TimedReadings(readings, gazeData) ==
  IF Len(gazeData) < 2 THEN readings
  ELSE LET totalDuration == gazeData[Len(gazeData)].timestamp - gazeData[1].timestamp
       IN [i \in 1..Len(readings) |->
             [readings[i] EXCEPT !.gazeTotalTime =
                MathRound(readings[i].gazePointCount * totalDuration, Len(gazeData))]]

\* A filter whose seen set holds word texts instead of word indices
RECURSIVE FilterFirst_ByWord(_, _)
FilterFirst_ByWord(events, seen) ==
  IF events = <<>> THEN <<>>
  ELSE IF Head(events).word \in seen
       THEN FilterFirst_ByWord(Tail(events), seen)
       ELSE <<Head(events)>> \o FilterFirst_ByWord(Tail(events), seen \cup {Head(events).word})

\* getReadingSequence: first event per wordIndex, in order of first occurrence
RECURSIVE FilterFirst(_, _)
FilterFirst(events, seen) ==
  IF events = <<>> THEN <<>>
  ELSE IF Head(events).wordIndex \in seen
       THEN FilterFirst(Tail(events), seen)
       ELSE <<Head(events)>> \o FilterFirst(Tail(events), seen \cup {Head(events).wordIndex})

getReadingSequence == FilterFirst(wordReadingSequence, {})

\* null as a WordBounds
NullWord == [word |-> "null", x |-> 0, y |-> 0, width |-> 0, height |-> 0, index |-> -1]

\* The rectangle test of findWordAtGazePosition
Contains(wordBounds, gazeX, gazeY) ==
  /\ gazeX >= wordBounds.x
  /\ gazeX <= wordBounds.x + wordBounds.width
  /\ gazeY >= wordBounds.y
  /\ gazeY <= wordBounds.y + wordBounds.height

\* A scan that keeps the last entry that passes the test
RECURSIVE ScanBounds_LastMatch(_, _, _, _)
ScanBounds_LastMatch(map, i, gazeX, gazeY) ==
  IF i > Len(map) THEN NullWord
  ELSE LET later == ScanBounds_LastMatch(map, i + 1, gazeX, gazeY)
       IN IF later # NullWord THEN later
          ELSE IF Contains(map[i], gazeX, gazeY) THEN map[i] ELSE NullWord

\* for (const [_, wordBounds] of this.wordBoundsMap): the first entry, in
\* insertion order from position i, that passes the test
RECURSIVE ScanBounds(_, _, _, _)
ScanBounds(map, i, gazeX, gazeY) ==
  IF i > Len(map) THEN NullWord
  ELSE IF Contains(map[i], gazeX, gazeY) THEN map[i]
       ELSE ScanBounds(map, i + 1, gazeX, gazeY)

findWordAtGazePosition(map, gazeX, gazeY) ==
  IF Len(map) = 0 THEN NullWord
  ELSE ScanBounds(map, 1, gazeX, gazeY)

(***************************************************************************)
(* Bounds of the model                                                      *)
(***************************************************************************)
MaxPoints  == 3    \* calibration points passed to calculateCalibrationMetrics
MaxLog     == 4    \* trackGazeOnWord calls between two resets
MaxTime    == 2    \* largest timestamp handed to trackGazeOnWord
MaxCalls   == 2    \* callbacks made by the gaze source on the page
MaxRecorded == 3   \* samples already recorded when a handler is called as a function
MaxTimers  == 1    \* pending timeouts of one kind on the page
MaxRequests == 2   \* analysis requests issued by the page
MaxWindow  == 9    \* samples buffered in the window of one point, SpecWindow
MaxBuf     == 4    \* samples buffered by the modal for one point
MaxAdvance == 1    \* pending 200 ms advance timeouts of the modal
MaxDone    == 2    \* pending 500 ms completion timeouts of the modal
MaxStray   == 1    \* countdown intervals left running without a ref
MaxExports == 2    \* export files of one run
MaxCompletes == 2  \* onComplete calls of one calibration run

(***************************************************************************)
(* States at rest: a component that a specification does not drive          *)
(***************************************************************************)
\* The gaze cloud service before initialize
CloudRest ==
  /\ cloudApi = FALSE
  /\ cloudAppended = 0
  /\ cloudPending = 0
  /\ cloudInitialized = FALSE
  /\ cloudInstalled = FALSE
  /\ cloudSetups = 0
  /\ cloudTracking = FALSE
  /\ cloudCallbacks = {}
  /\ cloudSignal = "none"
  /\ cloudInvoked = {}

\* The heatmap overlay before its canvas is mounted
HeatRest ==
  /\ heatPoints = <<>>
  /\ heatContainer = [left |-> 0, top |-> 0, width |-> 0, height |-> 0]
  /\ canvasSize = [width |-> 0, height |-> 0]
  /\ splatted = <<>>
  /\ maxIntensity = <<>>

CalRest ==
  /\ mPoints = <<>>
  /\ mSamples = <<>>
  /\ mResult = NoResult
  /\ CloudRest
  /\ HeatRest

WordRest ==
  /\ wordBoundsMap = <<>>
  /\ wordReadings = <<>>
  /\ wordReadingSequence = <<>>
  /\ lastGazedWordIndex = -1
  /\ found = <<>>
  /\ renderedLayout = <<>>
  /\ containerRect = [x |-> 0, y |-> 0]
  /\ textMounted = FALSE
  /\ displayedWordBounds = <<>>
  /\ containerOffset = [x |-> 0, y |-> 0]
  /\ highlightedWordIndex = -1

\* No export file has been produced
NoExport == [rawGazeData |-> <<>>]

PageRest ==
  /\ isCalibrated = FALSE
  /\ isTracking = FALSE
  /\ showCalibration = FALSE
  /\ gazePoints = <<>>
  /\ isTrackingRef = FALSE
  /\ gazePointsRef = <<>>
  /\ isAnalyzing = FALSE
  /\ analysisResult = 0
  /\ analysisError = "null"
  /\ webgazer = "loading"
  /\ gazeListener = "none"
  /\ syncInterval = FALSE
  /\ showTimers = 0
  /\ listenerTimers = 0
  /\ completeTimers = 0
  /\ apiKey = TRUE
  /\ inFlight = {}
  /\ requestsSent = 0
  /\ sourceCalls = 0
  /\ clock = 0
  /\ delivered = <<>>
  /\ pageEvent = "mount"
  /\ downloads = 0
  /\ lastExport = NoExport
  /\ heldExports = {}

NULL == -1   \* null in a numeric slot

StabRest ==
  /\ isOpen = FALSE
  /\ phase = "idle"
  /\ calibrationStep = 0
  /\ countdownValue = NULL
  /\ isStabilizing = FALSE
  /\ gazeSamplesRef = <<>>
  /\ stabilizationStartRef = NULL
  /\ countdownTimerRef = NULL
  /\ strayCountdowns = <<>>
  /\ advanceTimers = <<>>
  /\ doneTimers = 0
  /\ calibrationListener = FALSE
  /\ hasWebgazer = TRUE
  /\ lastRecorded = -1
  /\ acceptedVia = "none"
  /\ onCompleteCalls = 0

ClickRest ==
  /\ clickVariant = "grid17"
  /\ clickOpen = FALSE
  /\ clickStep = 0
  /\ isCalibrating = FALSE
  /\ isPointReady = FALSE
  /\ fixationTimerRef = FALSE
  /\ cornerOffset = [x |-> 200, y |-> 200]
  /\ webgazerReady = FALSE
  /\ clickDoneTimers = 0
  /\ clickRecorded = -1
  /\ clickCompletes = 0
  /\ modalError = "null"
  /\ deniedInRun = FALSE

(***************************************************************************)
(* Specification SpecMetrics: calculateCalibrationMetrics on bounded inputs *)
(***************************************************************************)
ScreenWidth  == 1000
ScreenHeight == 1000

\* Calibration points in percent of the screen
MetricPoints == { [x |-> 10, y |-> 10], [x |-> 50, y |-> 50] }

\* Offsets of a point's samples from its target, as lists: none, one exact
\* sample, one sample 50px away, two samples whose mean is 100px away, two
\* samples whose mean is 30px to the right, and single samples 20px, 40px and
\* 180px away.
OffsetLists ==
  { <<>>,
    << [x |-> 0, y |-> 0] >>,
    << [x |-> 30, y |-> 40] >>,
    << [x |-> 0, y |-> 0], [x |-> 120, y |-> 160] >>,
    << [x |-> 20, y |-> 0], [x |-> 40, y |-> 0] >>,
    << [x |-> 0, y |-> -20] >>,
    << [x |-> -24, y |-> 32] >>,
    << [x |-> 180, y |-> 0] >> }

SamplesFor(point, offsets) ==
  [i \in 1..Len(offsets) |->
     [x |-> (ScreenWidth * point.x) \div 100 + offsets[i].x,
      y |-> (ScreenHeight * point.y) \div 100 + offsets[i].y,
      timestamp |-> i]]

InitMetrics ==
  /\ \E n \in 1..MaxPoints :
       /\ mPoints \in [1..n -> MetricPoints]
       /\ \E k \in 0..n : \E offs \in [1..k -> OffsetLists] :
            mSamples = [i \in 1..k |-> SamplesFor(mPoints[i], offs[i])]
  /\ mResult = NoResult
  /\ CloudRest
  /\ HeatRest
  /\ WordRest
  /\ PageRest
  /\ StabRest
  /\ ClickRest

Calculate ==
  /\ mResult = NoResult
  /\ mResult' = calculateCalibrationMetrics(mPoints, mSamples, ScreenWidth, ScreenHeight)
  /\ UNCHANGED <<mPoints, mSamples, cloudVars, heatVars, wordVars, pageVars, stabVars,
                 clickVars>>

NextMetrics == Calculate

SpecMetrics == InitMetrics /\ [][NextMetrics]_vars

\* C1: whenever some calibration point has no samples, that point's entry in
\* pointErrors is Infinity and the returned quality is 'poor'.
C1_MissingSamplesForcePoor ==
  mResult # NoResult =>
    \A i \in 1..Len(mPoints) :
      Len(SamplesAt(mSamples, i)) = 0 =>
        /\ mResult.pointErrors[i].error = Infinity
        /\ mResult.quality = "poor"

\* C38: in every CalibrationResult maxError is the largest error listed in
\* pointErrors and maxError >= meanError >= 0; maxError is never negative,
\* also when some or all points have no samples.
C38_MaxErrorIsLargestPointError ==
  mResult # NoResult =>
    /\ \A i \in 1..Len(mResult.pointErrors) :
         mResult.pointErrors[i].error <= mResult.maxError
    /\ \E i \in 1..Len(mResult.pointErrors) :
         mResult.pointErrors[i].error = mResult.maxError
    /\ mResult.maxError * mResult.meanError.den >= mResult.meanError.num
    /\ mResult.meanError.num >= 0
    /\ mResult.maxError >= 0

\* The calibration points that have samples
Sampled == { i \in 1..Len(mPoints) : Len(SamplesAt(mSamples, i)) > 0 }

\* Sum and sum of squares of the reported errors of a set of points
RECURSIVE ErrorSum(_)
ErrorSum(S) ==
  IF S = {} THEN 0
  ELSE LET i == CHOOSE j \in S : TRUE
       IN mResult.pointErrors[i].error + ErrorSum(S \ {i})

RECURSIVE ErrorSquareSum(_)
ErrorSquareSum(S) ==
  IF S = {} THEN 0
  ELSE LET i == CHOOSE j \in S : TRUE
       IN mResult.pointErrors[i].error * mResult.pointErrors[i].error
          + ErrorSquareSum(S \ {i})

\* The reported error of point i is the Euclidean distance between the target
\* (screenWidth*x/100, screenHeight*y/100) and the mean of its samples; both
\* sides are scaled by 100 and by the number of samples
ErrorIsDistance(i) ==
  LET samples == mSamples[i]
      n  == Len(samples)
      sx == SumSeq([k \in 1..n |-> samples[k].x])
      sy == SumSeq([k \in 1..n |-> samples[k].y])
      dx == n * ScreenWidth * mPoints[i].x - 100 * sx
      dy == n * ScreenHeight * mPoints[i].y - 100 * sy
      e  == mResult.pointErrors[i].error
  IN /\ e >= 0
     /\ (100 * n * e) * (100 * n * e) = dx * dx + dy * dy

\* C25: every point with samples has as its error the Euclidean distance
\* between its pixel target and the mean of its samples, and meanError,
\* maxError and stdDev are the mean, the maximum and the population standard
\* deviation of the errors of those points.
C25_MetricsAreMeanMaxStdDev ==
  (mResult # NoResult /\ Sampled # {}) =>
    LET n == Cardinality(Sampled)
    IN /\ \A i \in Sampled : ErrorIsDistance(i)
       /\ mResult.meanError.num * n = mResult.meanError.den * ErrorSum(Sampled)
       /\ \A i \in Sampled : mResult.pointErrors[i].error <= mResult.maxError
       /\ \E i \in Sampled : mResult.pointErrors[i].error = mResult.maxError
       /\ mResult.stdDev.radicandNum * n * n =
            mResult.stdDev.radicandDen
            * (n * ErrorSquareSum(Sampled) - ErrorSum(Sampled) * ErrorSum(Sampled))
       /\ mResult.stdDev.radicandDen > 0

\* Witness of C25: point errors 20, 40 and 180 gave meanError 80, maxError 180
\* and quality 'acceptable'
C25_Witness ==
  /\ mResult # NoResult
  /\ Len(mPoints) = 3
  /\ mResult.pointErrors[1].error = 20
  /\ mResult.pointErrors[2].error = 40
  /\ mResult.pointErrors[3].error = 180
  /\ mResult.meanError.num = 80 * mResult.meanError.den
  /\ mResult.maxError = 180
  /\ mResult.quality = "acceptable"

InitWords ==
  /\ WordRest
  /\ CalRest
  /\ PageRest
  /\ StabRest
  /\ ClickRest

LastLogTime ==
  IF wordReadingSequence = <<>> THEN 0
  ELSE wordReadingSequence[Len(wordReadingSequence)].timestamp

ExtractWordBounds ==
  /\ \E layout \in Layouts :
       wordBoundsMap' = StoreBounds(wordBoundsMap, ExtractedWords(layout, 0))
  /\ found' = <<>>
  /\ UNCHANGED <<wordReadings, wordReadingSequence, lastGazedWordIndex>>
  /\ UNCHANGED <<textVars, calVars, pageVars, stabVars, clickVars>>

TrackGazeOnWord ==
  /\ Len(wordReadingSequence) < MaxLog
  /\ \E i \in 1..Len(wordBoundsMap) : \E timestamp \in LastLogTime..MaxTime :
       LET wordBounds == wordBoundsMap[i]
       IN /\ wordReadings' = TrackedReadings(wordReadings, lastGazedWordIndex,
                                             wordBounds, timestamp)
          /\ lastGazedWordIndex' = wordBounds.index
          /\ wordReadingSequence' =
               Append(wordReadingSequence,
                      [word |-> wordBounds.word, wordIndex |-> wordBounds.index,
                       timestamp |-> timestamp])
  /\ UNCHANGED <<wordBoundsMap, found>>
  /\ UNCHANGED <<textVars, calVars, pageVars, stabVars, clickVars>>

ResetReadingData ==
  /\ wordReadings' = <<>>
  /\ wordReadingSequence' = <<>>
  /\ lastGazedWordIndex' = -1
  /\ UNCHANGED <<wordBoundsMap, found>>
  /\ UNCHANGED <<textVars, calVars, pageVars, stabVars, clickVars>>

ResetService ==
  /\ wordBoundsMap' = <<>>
  /\ found' = <<>>
  /\ wordReadings' = <<>>
  /\ wordReadingSequence' = <<>>
  /\ lastGazedWordIndex' = -1
  /\ UNCHANGED <<textVars, calVars, pageVars, stabVars, clickVars>>

\* The sample lists handed to calculateTimeMetrics, as timestamps
SessionLists ==
  { <<>>,
    <<[timestamp |-> 0]>>,
    <<[timestamp |-> 0], [timestamp |-> 3]>>,
    <<[timestamp |-> 0], [timestamp |-> 1], [timestamp |-> 5]>> }

CalculateTimeMetrics ==
  /\ \E gazeData \in SessionLists :
       wordReadings' = TimedReadings(wordReadings, gazeData)
  /\ UNCHANGED <<wordBoundsMap, wordReadingSequence, lastGazedWordIndex, found>>
  /\ UNCHANGED <<textVars, calVars, pageVars, stabVars, clickVars>>

NextWords ==
  \/ ExtractWordBounds
  \/ TrackGazeOnWord
  \/ ResetReadingData
  \/ ResetService

SpecWords == InitWords /\ [][NextWords]_vars

(***************************************************************************)
(* Specification SpecLookup: findWordAtGazePosition on the indexed bounds   *)
(***************************************************************************)
\* Gaze coordinates: off every layout, inside words, on edges, and where the
\* rectangles of two extractions overlap
GazeXs == { -5, 5, 10, 25, 30, 40, 55 }
GazeYs == { -5, 5, 20, 25, 35 }

FindWordAtGazePosition ==
  /\ \E gazeX \in GazeXs : \E gazeY \in GazeYs :
       found' = << [x |-> gazeX, y |-> gazeY,
                    result |-> findWordAtGazePosition(wordBoundsMap, gazeX, gazeY)] >>
  /\ UNCHANGED <<wordBoundsMap, wordReadings, wordReadingSequence, lastGazedWordIndex>>
  /\ UNCHANGED <<textVars, calVars, pageVars, stabVars, clickVars>>

NextLookup ==
  \/ ExtractWordBounds
  \/ FindWordAtGazePosition
  \/ ResetService

SpecLookup == InitWords /\ [][NextLookup]_vars

\* C37: after extractWordBounds the word index used for hit-testing holds
\* exactly the words of that extraction, whatever earlier extractions stored:
\* findWordAtGazePosition can return no word of an earlier text and
\* totalUniqueWords (the size of the index) is the latest word count.
C37_IndexHoldsLatestExtraction ==
  [][\A extracted \in Layouts :
       (/\ ExtractWordBounds
        /\ wordBoundsMap' = StoreBounds(wordBoundsMap, ExtractedWords(extracted, 0)))
         => wordBoundsMap' = StoreBounds(<<>>, ExtractedWords(extracted, 0))]_vars

\* Positions of the bounds map whose rectangle holds the point of the lookup
Hits ==
  { i \in 1..Len(wordBoundsMap) :
      /\ wordBoundsMap[i].x <= found[1].x
      /\ found[1].x <= wordBoundsMap[i].x + wordBoundsMap[i].width
      /\ wordBoundsMap[i].y <= found[1].y
      /\ found[1].y <= wordBoundsMap[i].y + wordBoundsMap[i].height }

\* Positions whose rectangle has the point strictly inside
StrictHits ==
  { i \in 1..Len(wordBoundsMap) :
      /\ wordBoundsMap[i].x < found[1].x
      /\ found[1].x < wordBoundsMap[i].x + wordBoundsMap[i].width
      /\ wordBoundsMap[i].y < found[1].y
      /\ found[1].y < wordBoundsMap[i].y + wordBoundsMap[i].height }

\* C20: a lookup of a point strictly inside one word's rectangle and in no
\* other returns that word; a point outside every rectangle, or any point when
\* no word is indexed, returns null; where several rectangles hold the point
\* the lookup returns the one inserted first.
C20_LookupReturnsFirstContaining ==
  found # <<>> =>
    /\ \A i \in StrictHits : Hits = {i} => found[1].result = wordBoundsMap[i]
    /\ Hits = {} => found[1].result = NullWord
    /\ Len(wordBoundsMap) = 0 => found[1].result = NullWord
    /\ Cardinality(Hits) >= 2 =>
         \E i \in Hits : /\ \A j \in Hits : i <= j
                          /\ found[1].result = wordBoundsMap[i]

\* Witness of C20: the point lies strictly inside two indexed rectangles and
\* the lookup returned the one inserted first
C20_Witness ==
  /\ found # <<>>
  /\ Cardinality(StrictHits) = 2
  /\ found[1].result = wordBoundsMap[1]
  /\ 2 \in StrictHits

(***************************************************************************)
(* Specification SpecTime: calculateTimeMetrics on the readings of a        *)
(* session over an extracted text                                           *)
(***************************************************************************)
InitTime ==
  /\ \E extracted \in Layouts :
       wordBoundsMap = StoreBounds(<<>>, ExtractedWords(extracted, 0))
  /\ wordReadings = <<>>
  /\ wordReadingSequence = <<>>
  /\ lastGazedWordIndex = -1
  /\ found = <<>>
  /\ renderedLayout = <<>>
  /\ containerRect = [x |-> 0, y |-> 0]
  /\ textMounted = FALSE
  /\ displayedWordBounds = <<>>
  /\ containerOffset = [x |-> 0, y |-> 0]
  /\ highlightedWordIndex = -1
  /\ CalRest
  /\ PageRest
  /\ StabRest
  /\ ClickRest

NextTime ==
  \/ TrackGazeOnWord
  \/ CalculateTimeMetrics
  \/ ResetReadingData

SpecTime == InitTime /\ [][NextTime]_vars

\* t is the quotient num/den rounded to the nearest integer, a half upwards
IsRounded(t, num, den) ==
  /\ 2 * den * t - den <= 2 * num
  /\ 2 * num < 2 * den * t + den

\* C27: calculateTimeMetrics with at least two samples sets every word's
\* gazeTotalTime to round(gazePointCount / totalSamples * (last timestamp -
\* first timestamp)); with fewer than two samples it changes nothing; it
\* never changes another field of a reading, nor the set of readings.
C27_TimeIsShareOfSession ==
  [][\A gazeData \in SessionLists :
       (CalculateTimeMetrics /\ wordReadings' = TimedReadings(wordReadings, gazeData)) =>
         IF Len(gazeData) < 2
         THEN wordReadings' = wordReadings
         ELSE /\ Len(wordReadings') = Len(wordReadings)
              /\ \A i \in 1..Len(wordReadings) :
                   /\ IsRounded(wordReadings'[i].gazeTotalTime,
                                wordReadings[i].gazePointCount
                                * (gazeData[Len(gazeData)].timestamp - gazeData[1].timestamp),
                                Len(gazeData))
                   /\ wordReadings'[i] =
                        [wordReadings[i] EXCEPT
                           !.gazeTotalTime = wordReadings'[i].gazeTotalTime]]_vars

\* Witness of C27: a word with one gaze point out of two samples over 3 ms has
\* gazeTotalTime 2 (1.5 rounded), a word with two gaze points has 3
C27_Witness ==
  /\ Len(wordReadings) = 2
  /\ wordReadings[1].gazePointCount = 1
  /\ wordReadings[1].gazeTotalTime = 2
  /\ wordReadings[2].gazePointCount = 2
  /\ wordReadings[2].gazeTotalTime = 3

(***************************************************************************)
(* Specification SpecText: TextDisplay over a container that reflows        *)
(***************************************************************************)
\* Layouts of the text "KTH University": on one line, wrapped, on one line
\* with the second word pushed right, and two where a word is measured with an
\* empty rectangle (no width, no height)
TextLayouts ==
  { <<Token("KTH", 0, 0, 10, 10), Token("University", 20, 0, 30, 10)>>,
    <<Token("KTH", 0, 0, 10, 10), Token("University", 0, 20, 30, 10)>>,
    <<Token("KTH", 0, 0, 10, 10), Token("University", 25, 0, 30, 10)>>,
    <<Token("KTH", 0, 0, 10, 10), Token("University", 10, 0, 0, 10)>>,
    <<Token("KTH", 0, 0, 10, 0), Token("University", 0, 20, 30, 10)>> }

\* Positions of the container in the viewport
ContainerRects == { [x |-> 0, y |-> 0], [x |-> 10, y |-> 0] }

InitText ==
  /\ wordBoundsMap = <<>>
  /\ wordReadings = <<>>
  /\ wordReadingSequence = <<>>
  /\ lastGazedWordIndex = -1
  /\ found = <<>>
  /\ renderedLayout \in TextLayouts
  /\ containerRect \in ContainerRects
  /\ textMounted = FALSE
  /\ displayedWordBounds = <<>>
  /\ containerOffset = [x |-> 0, y |-> 0]
  /\ highlightedWordIndex = -1
  /\ CalRest
  /\ PageRest
  /\ StabRest
  /\ ClickRest

\* The first effect: extractWordBounds on the container, setWordBounds,
\* setContainerOffset
ExtractionEffect ==
  LET bounds == ExtractedWords(renderedLayout, 0)
  IN /\ wordBoundsMap' = StoreBounds(wordBoundsMap, bounds)
     /\ displayedWordBounds' = bounds
     /\ containerOffset' = containerRect
     /\ found' = <<>>

\* The component mounts: both effects run, the resize listener is registered
TextMount ==
  /\ ~textMounted
  /\ textMounted' = TRUE
  /\ ExtractionEffect
  /\ UNCHANGED <<renderedLayout, containerRect, highlightedWordIndex>>
  /\ UNCHANGED <<wordReadings, wordReadingSequence, lastGazedWordIndex>>
  /\ UNCHANGED <<calVars, pageVars, stabVars, clickVars>>

\* The parent passes another onWordsExtracted: the first effect runs again
EffectReruns ==
  /\ textMounted
  /\ ExtractionEffect
  /\ UNCHANGED <<renderedLayout, containerRect, textMounted, highlightedWordIndex>>
  /\ UNCHANGED <<wordReadings, wordReadingSequence, lastGazedWordIndex>>
  /\ UNCHANGED <<calVars, pageVars, stabVars, clickVars>>

\* handleResize: only the container offset is measured again
HandleResize(newLayout, newRect) ==
  /\ containerOffset' = newRect
  /\ UNCHANGED <<wordBoundsMap, displayedWordBounds, found>>

\* The viewport is resized: the container reflows and moves, then the resize
\* listener of the mounted component runs
ViewportResize ==
  /\ textMounted
  /\ \E newLayout \in TextLayouts : \E newRect \in ContainerRects :
       /\ renderedLayout' = newLayout
       /\ containerRect' = newRect
       /\ HandleResize(newLayout, newRect)
  /\ UNCHANGED <<textMounted, highlightedWordIndex>>
  /\ UNCHANGED <<wordReadings, wordReadingSequence, lastGazedWordIndex>>
  /\ UNCHANGED <<calVars, pageVars, stabVars, clickVars>>

\* The parent highlights another word
SetHighlight ==
  /\ textMounted
  /\ \E index \in -1..1 : highlightedWordIndex' = index
  /\ UNCHANGED <<renderedLayout, containerRect, textMounted, displayedWordBounds, containerOffset>>
  /\ UNCHANGED <<wordBoundsMap, wordReadings, wordReadingSequence, lastGazedWordIndex, found>>
  /\ UNCHANGED <<calVars, pageVars, stabVars, clickVars>>

NextText ==
  \/ TextMount
  \/ EffectReruns
  \/ ViewportResize
  \/ SetHighlight
  \/ FindWordAtGazePosition

SpecText == InitText /\ [][NextText]_vars

\* The rectangles of the layout now on screen, as an extraction would index them
CurrentBounds == ExtractedWords(renderedLayout, 0)

\* The indexed rectangles and the highlight rectangles are those on screen
BoundsAreCurrent ==
  /\ displayedWordBounds = CurrentBounds
  /\ \A i \in 1..Len(CurrentBounds) :
       \E j \in 1..Len(wordBoundsMap) : wordBoundsMap[j] = CurrentBounds[i]

\* C21: after every viewport resize the word rectangles used for hit-testing
\* (the service's bounds map) and for highlighting (the component's wordBounds)
\* are those of the layout now on screen.
C21_ResizeReextractsBounds ==
  [][ViewportResize => BoundsAreCurrent']_vars

\* C22: one extraction over a container with n tokens returns n WordBounds,
\* the i-th being the i-th token in reading order with its measured rectangle
\* and index i-1; a token measured with zero width or zero height is kept.
C22_ExtractionKeepsEveryToken ==
  [][(TextMount \/ EffectReruns) =>
       /\ Len(displayedWordBounds') = Len(renderedLayout)
       /\ \A i \in 1..Len(renderedLayout) :
            /\ displayedWordBounds'[i].index = i - 1
            /\ displayedWordBounds'[i].word = renderedLayout[i].word
            /\ displayedWordBounds'[i].x = renderedLayout[i].x
            /\ displayedWordBounds'[i].y = renderedLayout[i].y
            /\ displayedWordBounds'[i].width = renderedLayout[i].width
            /\ displayedWordBounds'[i].height = renderedLayout[i].height]_vars

\* Witness of C22: the extraction of the layout on screen returned two words,
\* the first measured with zero height
C22_Witness ==
  /\ textMounted
  /\ Len(renderedLayout) = 2
  /\ renderedLayout[1].height = 0
  /\ Len(displayedWordBounds) = 2
  /\ displayedWordBounds[1].height = 0
  /\ displayedWordBounds[1].index = 0
  /\ displayedWordBounds[2].index = 1

\* The logged calls since the last reset, as word keys
LogKeys == [i \in 1..Len(wordReadingSequence) |->
              <<wordReadingSequence[i].word, wordReadingSequence[i].wordIndex>>]

\* Number of maximal runs of consecutive calls on the word with this key
Episodes(key) ==
  Cardinality({ i \in 1..Len(LogKeys) :
                  LogKeys[i] = key /\ (i = 1 \/ LogKeys[i - 1] # key) })

\* The run-compressed log: one entry per maximal run
RECURSIVE Compress(_)
Compress(s) ==
  IF Len(s) <= 1 THEN s
  ELSE IF s[1] = s[2] THEN Compress(Tail(s))
       ELSE <<s[1]>> \o Compress(Tail(s))

FrequencyOf(key) == wordReadings[MapPos(ReadingKeys(wordReadings), key)].frequency

\* C2: every word's frequency equals the number of disjoint dwell episodes on
\* it (maximal runs of consecutive trackGazeOnWord calls) since the last reset.
C2_FrequencyCountsEpisodes ==
  \A i \in 1..Len(wordReadings) :
    wordReadings[i].frequency = Episodes(ReadingKey(wordReadings[i]))

CallsOn(key) ==
  Cardinality({ i \in 1..Len(LogKeys) : LogKeys[i] = key })

\* C40: whatever extractWordBounds and trackGazeOnWord calls were made since
\* the last reset, the exported wordReadings and readingSequence have the same
\* length and describe the same word indices: every gazed word index has
\* exactly one WordReading and exactly one reading-sequence event.
C40_ReadingsMatchSequence ==
  /\ Len(wordReadings) = Len(getReadingSequence)
  /\ {wordReadings[i].wordIndex : i \in 1..Len(wordReadings)}
       = {getReadingSequence[i].wordIndex : i \in 1..Len(getReadingSequence)}
  /\ \A i, j \in 1..Len(wordReadings) :
       wordReadings[i].wordIndex = wordReadings[j].wordIndex => i = j

\* C18: since the last resetReadingData or reset, every word that was tracked
\* has a reading, and the gazePointCount of every reading is the number of
\* trackGazeOnWord calls made for its word text and index.
C18_GazePointCountCountsCalls ==
  /\ \A i \in 1..Len(wordReadings) :
       wordReadings[i].gazePointCount = CallsOn(ReadingKey(wordReadings[i]))
  /\ \A i \in 1..Len(LogKeys) :
       MapPos(ReadingKeys(wordReadings), LogKeys[i]) # 0
  /\ \A i, j \in 1..Len(wordReadings) :
       ReadingKey(wordReadings[i]) = ReadingKey(wordReadings[j]) => i = j

\* Witness of C18: after a re-extraction two words share index 0; one was
\* tracked twice in a row and once more later, the other once in between
C18_Witness ==
  /\ Len(wordReadings) = 2
  /\ wordReadings[1].wordIndex = wordReadings[2].wordIndex
  /\ wordReadings[1].word # wordReadings[2].word
  /\ wordReadings[1].gazePointCount = 3
  /\ wordReadings[2].gazePointCount = 1
  /\ LogKeys[1] = LogKeys[2]
  /\ LogKeys[3] # LogKeys[1]

\* Positions of the log whose word index does not occur earlier in the log
FirstPositions ==
  { i \in 1..Len(wordReadingSequence) :
      \A j \in 1..(i - 1) :
        wordReadingSequence[j].wordIndex # wordReadingSequence[i].wordIndex }

\* The k-th smallest of the first positions
KthFirstPosition(k) ==
  CHOOSE i \in FirstPositions : Cardinality({ j \in FirstPositions : j <= i }) = k

\* C19: getReadingSequence returns exactly one event per distinct word index of
\* the log, that index's first logged event (with its timestamp), and the
\* events come in the order of their first occurrence.
C19_SequenceKeepsFirstOccurrences ==
  /\ Len(getReadingSequence) = Cardinality(FirstPositions)
  /\ \A k \in 1..Len(getReadingSequence) :
       getReadingSequence[k] = wordReadingSequence[KthFirstPosition(k)]

\* Witness of C19: hits KTH, University, KTH with growing timestamps export as
\* KTH, University
C19_Witness ==
  /\ Len(wordReadingSequence) = 3
  /\ wordReadingSequence[1].word = "KTH"
  /\ wordReadingSequence[2].word = "University"
  /\ wordReadingSequence[3].word = "KTH"
  /\ wordReadingSequence[1].timestamp < wordReadingSequence[3].timestamp
  /\ Len(getReadingSequence) = 2
  /\ getReadingSequence[1] = wordReadingSequence[1]
  /\ getReadingSequence[2] = wordReadingSequence[2]

(***************************************************************************)
(* Specification SpecCloud: services/gazeCloudService.ts                    *)
(***************************************************************************)
MaxScripts == 2

CallbackFields ==
  {"gazeResultCallback", "calibrationCompleteCallback", "errorCallback",
   "cameraDeniedCallback"}

InitCloud ==
  /\ cloudApi \in BOOLEAN
  /\ cloudAppended = 0
  /\ cloudPending = 0
  /\ cloudInitialized = FALSE
  /\ cloudInstalled = FALSE
  /\ cloudSetups = 0
  /\ cloudTracking = FALSE
  /\ cloudCallbacks = {}
  /\ cloudSignal = "none"
  /\ cloudInvoked = {}
  /\ mPoints = <<>>
  /\ mSamples = <<>>
  /\ mResult = NoResult
  /\ HeatRest
  /\ WordRest
  /\ PageRest
  /\ StabRest
  /\ ClickRest

\* setOnGazeResult, setOnCalibrationComplete, setOnError, setOnCameraDenied
SetCallback ==
  /\ \E field \in CallbackFields : cloudCallbacks' = cloudCallbacks \cup {field}
  /\ cloudSignal' = "set"
  /\ cloudInvoked' = {}
  /\ UNCHANGED <<cloudApi, cloudAppended, cloudPending, cloudSetups, cloudInitialized, cloudInstalled, cloudTracking>>
  /\ UNCHANGED <<mPoints, mSamples, mResult, heatVars, wordVars, pageVars, stabVars,
                 clickVars>>

\* initialize(): resolves at once when initialized or when the API is there,
\* otherwise appends the script element
Initialize ==
  /\ cloudSignal' = "initialize"
  /\ IF cloudInitialized
     THEN /\ cloudInvoked' = {"resolve"}
          /\ UNCHANGED <<cloudAppended, cloudPending, cloudInitialized, cloudInstalled,
                         cloudSetups>>
     ELSE IF cloudApi
     THEN /\ cloudInstalled' = TRUE
          /\ cloudSetups' = cloudSetups + 1
          /\ cloudInitialized' = TRUE
          /\ cloudInvoked' = {"resolve"}
          /\ UNCHANGED <<cloudAppended, cloudPending>>
     ELSE /\ cloudAppended < MaxScripts
          /\ cloudAppended' = cloudAppended + 1
          /\ cloudPending' = cloudPending + 1
          /\ cloudInvoked' = {}
          /\ UNCHANGED <<cloudInitialized, cloudInstalled, cloudSetups>>
  /\ UNCHANGED <<cloudApi, cloudTracking, cloudCallbacks>>
  /\ UNCHANGED <<mPoints, mSamples, mResult, heatVars, wordVars, pageVars, stabVars,
                 clickVars>>

\* script.onload: the library has defined window.GazeCloudAPI
ScriptOnLoad ==
  /\ cloudPending > 0
  /\ cloudPending' = cloudPending - 1
  /\ cloudApi' = TRUE
  /\ cloudInstalled' = TRUE
  /\ cloudSetups' = cloudSetups + 1
  /\ cloudInitialized' = TRUE
  /\ cloudSignal' = "loaded"
  /\ cloudInvoked' = {"resolve"}
  /\ UNCHANGED <<cloudAppended, cloudTracking, cloudCallbacks>>
  /\ UNCHANGED <<mPoints, mSamples, mResult, heatVars, wordVars, pageVars, stabVars,
                 clickVars>>

\* What script.onerror calls
LoadFailureCalls == {"reject"}

\* script.onerror
ScriptOnError ==
  /\ cloudPending > 0
  /\ cloudPending' = cloudPending - 1
  /\ cloudSignal' = "loadFailure"
  /\ cloudInvoked' = LoadFailureCalls
  /\ UNCHANGED <<cloudApi, cloudAppended, cloudSetups, cloudInitialized, cloudInstalled, cloudTracking,
                 cloudCallbacks>>
  /\ UNCHANGED <<mPoints, mSamples, mResult, heatVars, wordVars, pageVars, stabVars,
                 clickVars>>

\* startTracking(): returns with a warning when the library is not there
startTracking ==
  /\ cloudTracking' = (cloudApi \/ cloudTracking)
  /\ cloudSignal' = "start"
  /\ cloudInvoked' = {}
  /\ UNCHANGED <<cloudApi, cloudAppended, cloudPending, cloudSetups, cloudInitialized, cloudInstalled,
                 cloudCallbacks>>
  /\ UNCHANGED <<mPoints, mSamples, mResult, heatVars, wordVars, pageVars, stabVars,
                 clickVars>>

\* stopTracking(): returns with a warning when the library is not there
stopTracking ==
  /\ cloudTracking' = (~cloudApi /\ cloudTracking)
  /\ cloudSignal' = "stop"
  /\ cloudInvoked' = {}
  /\ UNCHANGED <<cloudApi, cloudAppended, cloudPending, cloudSetups, cloudInitialized, cloudInstalled,
                 cloudCallbacks>>
  /\ UNCHANGED <<mPoints, mSamples, mResult, heatVars, wordVars, pageVars, stabVars,
                 clickVars>>

\* An OnCamDenied that reports through the error callback as well
CamDeniedCalls_AlsoError == {"cameraDeniedCallback", "errorCallback"}

\* The callback fields OnCamDenied calls when they are set
CamDeniedCalls == {"cameraDeniedCallback"}

\* The callback fields OnError calls when they are set
ErrorCalls == {"errorCallback"}

\* The library calls OnCamDenied
OnCamDenied ==
  /\ cloudInstalled
  /\ cloudSignal' = "cameraDenied"
  /\ cloudInvoked' = CamDeniedCalls \cap cloudCallbacks
  /\ UNCHANGED <<cloudApi, cloudAppended, cloudPending, cloudSetups, cloudInitialized, cloudInstalled, cloudTracking,
                 cloudCallbacks>>
  /\ UNCHANGED <<mPoints, mSamples, mResult, heatVars, wordVars, pageVars, stabVars,
                 clickVars>>

\* The library calls OnError(msg)
OnError ==
  /\ cloudInstalled
  /\ cloudSignal' = "error"
  /\ cloudInvoked' = ErrorCalls \cap cloudCallbacks
  /\ UNCHANGED <<cloudApi, cloudAppended, cloudPending, cloudSetups, cloudInitialized, cloudInstalled, cloudTracking,
                 cloudCallbacks>>
  /\ UNCHANGED <<mPoints, mSamples, mResult, heatVars, wordVars, pageVars, stabVars,
                 clickVars>>

\* An OnResult that hands every result of a tracking service to the callback
ResultCalls_IgnoresState(tracking, calibrated) ==
  IF ~tracking THEN {} ELSE {"gazeData", "gazeResultCallback"}

\* What OnResult does with a result: the "gazeData" event, the callback
ResultCalls(tracking, calibrated) ==
  IF ~tracking THEN {}
  ELSE IF calibrated THEN {"gazeData", "gazeResultCallback"}
  ELSE {"gazeData"}

\* The library calls OnResult with state 0 (calibrated) or another state
OnResult ==
  /\ cloudInstalled
  /\ \E calibrated \in BOOLEAN :
       /\ cloudSignal' = IF calibrated THEN "result0" ELSE "resultOther"
       /\ cloudInvoked' = ResultCalls(cloudTracking, calibrated)
                            \cap ({"gazeData"} \cup cloudCallbacks)
  /\ UNCHANGED <<cloudApi, cloudAppended, cloudPending, cloudSetups, cloudInitialized, cloudInstalled, cloudTracking,
                 cloudCallbacks>>
  /\ UNCHANGED <<mPoints, mSamples, mResult, heatVars, wordVars, pageVars, stabVars,
                 clickVars>>

\* The library calls OnCalibrationComplete
OnCalibrationComplete ==
  /\ cloudInstalled
  /\ cloudSignal' = "calibrationComplete"
  /\ cloudInvoked' = {"calibrationCompleteCallback"} \cap cloudCallbacks
  /\ UNCHANGED <<cloudApi, cloudAppended, cloudPending, cloudSetups, cloudInitialized, cloudInstalled, cloudTracking,
                 cloudCallbacks>>
  /\ UNCHANGED <<mPoints, mSamples, mResult, heatVars, wordVars, pageVars, stabVars,
                 clickVars>>

NextCloud ==
  \/ SetCallback
  \/ Initialize
  \/ ScriptOnLoad
  \/ ScriptOnError
  \/ startTracking
  \/ stopTracking
  \/ OnCamDenied
  \/ OnError
  \/ OnResult
  \/ OnCalibrationComplete

SpecCloud == InitCloud /\ [][NextCloud]_vars

\* C28: the three failure signals stay apart: a library load failure rejects
\* initialize() and calls no callback, a camera denial calls the camera-denied
\* callback and nothing else, a source error calls the error callback and
\* nothing else; each reaches its handler when it is set.
C28_FailureSignalsDistinct ==
  /\ cloudSignal = "loadFailure" => cloudInvoked = {"reject"}
  /\ cloudSignal = "cameraDenied" =>
       cloudInvoked = {"cameraDeniedCallback"} \cap cloudCallbacks
  /\ cloudSignal = "error" => cloudInvoked = {"errorCallback"} \cap cloudCallbacks

\* Witness of C28: with all four callbacks set the camera was denied and only
\* the camera-denied callback was called
C28_Witness ==
  /\ cloudCallbacks = CallbackFields
  /\ cloudSignal = "cameraDenied"
  /\ cloudInvoked = {"cameraDeniedCallback"}

\* C31: a source result reaches the gaze-result callback only while the service
\* is tracking and the result's state is 0; a result that arrives while the
\* service is not tracking causes neither the callback nor the gazeData event,
\* and a result of another state that arrives while tracking causes the event
\* and not the callback.
C31_ResultForwarding ==
  /\ "gazeResultCallback" \in cloudInvoked => (cloudSignal = "result0" /\ cloudTracking)
  /\ (cloudSignal \in {"result0", "resultOther"} /\ ~cloudTracking) => cloudInvoked = {}
  /\ (cloudSignal = "resultOther" /\ cloudTracking) => cloudInvoked = {"gazeData"}
  /\ (cloudSignal = "result0" /\ cloudTracking) =>
       cloudInvoked = {"gazeData"} \cup ({"gazeResultCallback"} \cap cloudCallbacks)

\* Witness of C31: the service is tracking, the callback is set, and a result
\* of a state other than 0 has only dispatched the event
C31_Witness ==
  /\ cloudTracking
  /\ "gazeResultCallback" \in cloudCallbacks
  /\ cloudSignal = "resultOther"
  /\ cloudInvoked = {"gazeData"}

\* C36: initialize() loads the library at most once: at most one script element
\* is appended and setupCallbacks runs at most once, however many calls are made.
C36_LibraryLoadedOnce ==
  /\ cloudAppended <= 1
  /\ cloudSetups <= 1

(***************************************************************************)
(* Specification SpecHeat: components/HeatmapOverlay.tsx                    *)
(* Coordinates of gaze points are kept in half pixels, rectangles and keys  *)
(* in whole pixels. intensityMap is kept by the points that were added to   *)
(* it and read through intensityMapGet; an intensity is the sequence of the *)
(* squared offset distances d2 whose contributions 1 - sqrt(d2)/radius were *)
(* added under one key.                                                     *)
(***************************************************************************)
radius == 60

\* Math.floor of a value given in half pixels
MathFloor(twice) == twice \div 2

\* The offsets (dx, dy) of the two loops that pass distance <= radius
DiscOffsets ==
  {o \in (-radius..radius) \X (-radius..radius) :
     o[1] * o[1] + o[2] * o[2] <= radius * radius}

\* The filter of the gaze points that fall within the container
InContainer(point, bounds) ==
  /\ point.x >= 2 * bounds.left
  /\ point.x <= 2 * (bounds.left + bounds.width)
  /\ point.y >= 2 * bounds.top
  /\ point.y <= 2 * (bounds.top + bounds.height)

\* relativeX and relativeY of a point
Relative(point, bounds) ==
  [relativeX |-> point.x - 2 * bounds.left, relativeY |-> point.y - 2 * bounds.top]

\* The key of offset o around a point: Math.floor(relativeX + dx), Math.floor(relativeY + dy)
KeyOf(rel, o) ==
  <<MathFloor(rel.relativeX + 2 * o[1]), MathFloor(rel.relativeY + 2 * o[2])>>

\* The offset that leads from a point to a key (floor(r + dx) = floor(r) + dx)
OffsetOf(key, rel) ==
  <<key[1] - MathFloor(rel.relativeX), key[2] - MathFloor(rel.relativeY)>>

\* intensityMap.get(key) after the forEach over the points in rels: the
\* contributions added under the key, <<>> when the key has no entry
intensityMapGet(rels, key) ==
  LET offsets == [i \in 1..Len(rels) |-> OffsetOf(key, rels[i])]
      RECURSIVE Added(_)
      Added(i) ==
        IF i > Len(rels) THEN <<>>
        ELSE IF offsets[i] \in DiscOffsets
        THEN <<offsets[i][1] * offsets[i][1] + offsets[i][2] * offsets[i][2]>> \o Added(i + 1)
        ELSE Added(i + 1)
  IN  Added(1)

\* a <= b for intensities whose contributions are all alike: a is Len(a) times
\* 1 - sqrt(a[1])/radius, compared exactly by squaring
IntensityLessEq(a, b) ==
  LET n == Len(a)
      m == Len(b)
      B == IF n = 0 THEN 0 ELSE n * n * a[1]
      A == IF m = 0 THEN 0 ELSE m * m * b[1]
      c == radius * (m - n)
  IN  IF c >= 0
      THEN \/ A <= B
           \/ A - B - c * c <= 0
           \/ (A - B - c * c) * (A - B - c * c) <= 4 * c * c * B
      ELSE /\ B - A - c * c >= 0
           /\ 4 * c * c * A <= (B - A - c * c) * (B - A - c * c)

\* The greatest of a set of intensities, 0 for the empty set
Greatest(values) ==
  LET counts == {Len(v) : v \in values} \ {0}
      Nearest(n) ==
        LET ds == {v[1] : v \in {w \in values : Len(w) = n}}
            d == CHOOSE e \in ds : \A f \in ds : e <= f
        IN  [i \in 1..n |-> d]
      best == {Nearest(n) : n \in counts}
  IN  IF best = {} THEN <<>>
      ELSE CHOOSE v \in best : \A w \in best : IntensityLessEq(w, v)

\* The maximum of the second forEach over intensityMap, starting from 0
FindMaxIntensity(rels) ==
  Greatest({Greatest({intensityMapGet(rels, KeyOf(rels[i], o)) : o \in DiscOffsets}) :
              i \in 1..Len(rels)})

\* The container rectangles of the page
HeatRegions ==
  {[left |-> 0, top |-> 0, width |-> 400, height |-> 200],
   [left |-> 50, top |-> 20, width |-> 400, height |-> 200],
   [left |-> 0, top |-> 0, width |-> 250, height |-> 200],
   [left |-> -20, top |-> -10, width |-> 400, height |-> 200]}

\* The recorded gaze points handed to the overlay, in half pixels: (100, 100),
\* (100.5, 100.5), (300, 100), (0, 0) and (600, 100); discs of different
\* points that both lie in a region never overlap unless they coincide
HeatSessions ==
  {<<>>,
   <<[x |-> 200, y |-> 200]>>,
   <<[x |-> 201, y |-> 201]>>,
   <<[x |-> 0, y |-> 0]>>,
   <<[x |-> 1200, y |-> 200]>>,
   <<[x |-> 200, y |-> 200], [x |-> 1200, y |-> 200]>>,
   <<[x |-> 200, y |-> 200], [x |-> 600, y |-> 200]>>,
   <<[x |-> 200, y |-> 200], [x |-> 600, y |-> 200], [x |-> 201, y |-> 201]>>}

InitHeat ==
  /\ heatPoints = <<>>
  /\ heatContainer \in HeatRegions
  /\ canvasSize = [width |-> 0, height |-> 0]
  /\ splatted = <<>>
  /\ maxIntensity = <<>>
  /\ mPoints = <<>>
  /\ mSamples = <<>>
  /\ mResult = NoResult
  /\ CloudRest
  /\ WordRest
  /\ PageRest
  /\ StabRest
  /\ ClickRest

\* The effect of the overlay, run because the gazePoints prop changed
HeatmapEffect ==
  /\ \E points \in HeatSessions \ {heatPoints} :
       LET bounds == heatContainer
           containerGazePoints == SelectSeq(points, LAMBDA point : InContainer(point, bounds))
           rels == [i \in 1..Len(containerGazePoints) |->
                      Relative(containerGazePoints[i], bounds)]
       IN  /\ heatPoints' = points
           /\ canvasSize' = [width |-> bounds.width, height |-> bounds.height]
           /\ splatted' = rels
           /\ maxIntensity' = FindMaxIntensity(rels)
  /\ UNCHANGED heatContainer
  /\ UNCHANGED <<mPoints, mSamples, mResult, cloudVars, wordVars, pageVars, stabVars,
                 clickVars>>

\* The layout moves or resizes the container; the effect does not depend on it
ContainerChanges ==
  /\ \E bounds \in HeatRegions \ {heatContainer} : heatContainer' = bounds
  /\ UNCHANGED <<heatPoints, canvasSize, splatted, maxIntensity>>
  /\ UNCHANGED <<mPoints, mSamples, mResult, cloudVars, wordVars, pageVars, stabVars,
                 clickVars>>

NextHeat == HeatmapEffect \/ ContainerChanges

SpecHeat == InitHeat /\ [][NextHeat]_vars

\* The pixels around a centre key that the two loops can reach, and two more
Around(centre) ==
  (centre[1] - radius - 2 .. centre[1] + radius + 2)
    \X (centre[2] - radius - 2 .. centre[2] + radius + 2)

\* The squared distance between two pixels
PixelDistance2(key, centre) ==
  (key[1] - centre[1]) * (key[1] - centre[1]) + (key[2] - centre[2]) * (key[2] - centre[2])

\* The pixel a point's centre falls into
CentrePixel(rel) == KeyOf(rel, <<0, 0>>)

\* Two intensities are the same number
SameIntensity(a, b) == IntensityLessEq(a, b) /\ IntensityLessEq(b, a)

\* C29: for a single sample inside the region the pixel at its centre has the
\* maximum intensity, so its normalized intensity is exactly 1, and no pixel at
\* distance >= radius from the centre has an entry in intensityMap.
C29_SingleSampleDisc ==
  Len(splatted) = 1 =>
    LET centre == CentrePixel(splatted[1])
    IN  /\ intensityMapGet(splatted, centre) # <<>>
        /\ ~IntensityLessEq(maxIntensity, <<>>)
        /\ SameIntensity(intensityMapGet(splatted, centre), maxIntensity)
        /\ \A key \in Around(centre) :
             PixelDistance2(key, centre) >= radius * radius =>
               intensityMapGet(splatted, key) = <<>>

\* The part of C29 the code keeps: the centre pixel is the maximum, and no
\* pixel at distance > radius has an entry; a pixel at distance = radius has
\* the entry 0
HeatDiscIsClosed ==
  Len(splatted) = 1 =>
    LET centre == CentrePixel(splatted[1])
    IN  /\ SameIntensity(intensityMapGet(splatted, centre), maxIntensity)
        /\ ~IntensityLessEq(maxIntensity, <<>>)
        /\ \A key \in Around(centre) :
             /\ PixelDistance2(key, centre) > radius * radius =>
                  intensityMapGet(splatted, key) = <<>>
             /\ PixelDistance2(key, centre) = radius * radius =>
                  /\ intensityMapGet(splatted, key) # <<>>
                  /\ SameIntensity(intensityMapGet(splatted, key), <<>>)

(***************************************************************************)
(* Specification SpecPage: pages/Index.tsx with components/ControlPanel.tsx *)
(***************************************************************************)
InitPage ==
  /\ isCalibrated = FALSE
  /\ isTracking = FALSE
  /\ showCalibration = FALSE
  /\ gazePoints = <<>>
  /\ isTrackingRef = FALSE
  /\ gazePointsRef = <<>>
  /\ isAnalyzing = FALSE
  /\ analysisResult = 0
  /\ analysisError = "null"
  /\ webgazer = "loading"
  /\ gazeListener = "none"
  /\ syncInterval = FALSE
  /\ showTimers = 0
  /\ listenerTimers = 0
  /\ completeTimers = 0
  /\ apiKey \in BOOLEAN
  /\ inFlight = {}
  /\ requestsSent = 0
  /\ sourceCalls = 0
  /\ clock = 0
  /\ delivered = <<>>
  /\ pageEvent = "mount"
  /\ downloads = 0
  /\ lastExport = NoExport
  /\ heldExports = {}
  /\ CalRest
  /\ WordRest
  /\ StabRest
  /\ ClickRest

\* The effect on [webgazerLoaded, isCalibrated]: when a dependency changed and
\* the library is loaded and the page is uncalibrated, one more 1 s timeout.
ShowEffectTimers(depsChanged, loaded, calibrated) ==
  IF depsChanged /\ loaded /\ ~calibrated THEN 1 ELSE 0

\* script.onload: setWebgazerLoaded(true), register the first gaze listener
ScriptLoaded ==
  /\ webgazer = "loading"
  /\ showTimers + ShowEffectTimers(TRUE, TRUE, isCalibrated) <= MaxTimers
  /\ webgazer' = "loaded"
  /\ gazeListener' = "initial"
  /\ showTimers' = showTimers + ShowEffectTimers(TRUE, TRUE, isCalibrated)
  /\ pageEvent' = "load"
  /\ UNCHANGED <<isCalibrated, isTracking, showCalibration, gazePoints, isTrackingRef,
                 gazePointsRef, isAnalyzing, analysisResult, analysisError,
                 syncInterval, listenerTimers, completeTimers, apiKey, inFlight,
                 requestsSent, sourceCalls, clock, delivered>>
  /\ UNCHANGED <<exportVars, calVars, wordVars, stabVars, clickVars>>

\* script.onerror: only a toast
ScriptFailed ==
  /\ webgazer = "loading"
  /\ webgazer' = "failed"
  /\ pageEvent' = "fail"
  /\ UNCHANGED <<isCalibrated, isTracking, showCalibration, gazePoints, isTrackingRef,
                 gazePointsRef, isAnalyzing, analysisResult, analysisError,
                 gazeListener, syncInterval, showTimers, listenerTimers,
                 completeTimers, apiKey, inFlight, requestsSent, sourceCalls, clock,
                 delivered>>
  /\ UNCHANGED <<exportVars, calVars, wordVars, stabVars, clickVars>>

\* setTimeout(() => setShowCalibration(true), 1000) fires
ShowCalibrationTimer ==
  /\ showTimers > 0
  /\ showTimers' = showTimers - 1
  /\ showCalibration' = TRUE
  /\ pageEvent' = "show"
  /\ UNCHANGED <<isCalibrated, isTracking, gazePoints, isTrackingRef,
                 gazePointsRef, isAnalyzing, analysisResult, analysisError,
                 webgazer, gazeListener, syncInterval, listenerTimers,
                 completeTimers, apiKey, inFlight, requestsSent, sourceCalls, clock,
                 delivered>>
  /\ UNCHANGED <<exportVars, calVars, wordVars, stabVars, clickVars>>

\* gazePointsRef.current.push(sample), seen through the export objects whose
\* rawGazeData is that same array
Pushed(held, sample) ==
  { IF e.live THEN [e EXCEPT !.rawGazeData = Append(@, sample)] ELSE e : e \in held }

\* gazePointsRef.current = []: the export objects keep the array they were given
Detached(held) ==
  { [e EXCEPT !.live = FALSE] : e \in held }

\* The data the source hands to the listener: null, a prediction without
\* coordinates, or a prediction with coordinates.
SourceData == {"null", "partial", "valid"}

\* The condition under which the registered listener pushes a sample
ListenerAccepts_IgnoresTracking(data) ==
  \/ gazeListener = "initial" /\ data # "null"
  \/ gazeListener = "tracking" /\ data = "valid"

ListenerAccepts(data) ==
  \/ gazeListener = "initial" /\ data # "null" /\ isTrackingRef
  \/ gazeListener = "tracking" /\ data = "valid" /\ isTrackingRef

\* The gaze source calls the registered listener
GazeCallback ==
  /\ webgazer = "loaded"
  /\ sourceCalls < MaxCalls
  /\ \E data \in SourceData : \E dt \in 0..1 :
       LET sample == [n |-> sourceCalls + 1, timestamp |-> clock + dt]
       IN /\ clock' = clock + dt
          /\ gazePointsRef' = IF ListenerAccepts(data)
                              THEN Append(gazePointsRef, sample)
                              ELSE gazePointsRef
          /\ heldExports' = IF ListenerAccepts(data)
                            THEN Pushed(heldExports, sample)
                            ELSE heldExports
          /\ delivered' = IF data = "valid" /\ isTracking
                          THEN Append(delivered, sample)
                          ELSE delivered
  /\ sourceCalls' = sourceCalls + 1
  /\ pageEvent' = "gaze"
  /\ UNCHANGED <<isCalibrated, isTracking, showCalibration, gazePoints, isTrackingRef,
                 isAnalyzing, analysisResult, analysisError,
                 webgazer, gazeListener, syncInterval, showTimers, listenerTimers,
                 completeTimers, apiKey, inFlight, requestsSent>>
  /\ UNCHANGED <<fileVars, calVars, wordVars, stabVars, clickVars>>

\* The 500 ms interval of the sync effect fires: setGazePoints([...ref])
SyncTick ==
  /\ syncInterval
  /\ gazePoints' = gazePointsRef
  /\ pageEvent' = "sync"
  /\ UNCHANGED <<isCalibrated, isTracking, showCalibration, isTrackingRef,
                 gazePointsRef, isAnalyzing, analysisResult, analysisError,
                 webgazer, gazeListener, syncInterval, showTimers, listenerTimers,
                 completeTimers, apiKey, inFlight, requestsSent, sourceCalls, clock,
                 delivered>>
  /\ UNCHANGED <<exportVars, calVars, wordVars, stabVars, clickVars>>

\* ControlPanel: the Start button is rendered when not tracking, enabled when calibrated
StartButtonEnabled == ~isTracking /\ isCalibrated

\* A start that keeps the samples of the session before
HandleStartTracking_KeepsSamples ==
  /\ StartButtonEnabled
  /\ IF ~isCalibrated
     THEN UNCHANGED <<isTracking, isTrackingRef, gazePointsRef, gazePoints,
                      gazeListener, syncInterval, delivered, heldExports>>
     ELSE /\ gazeListener' = IF webgazer = "loaded" THEN "tracking" ELSE gazeListener
          /\ isTracking' = TRUE
          /\ isTrackingRef' = TRUE
          /\ UNCHANGED <<gazePointsRef, heldExports, gazePoints>>
          /\ syncInterval' = TRUE
          /\ UNCHANGED delivered
  /\ pageEvent' = "start"
  /\ UNCHANGED <<isCalibrated, showCalibration, isAnalyzing, analysisResult,
                 analysisError, webgazer, showTimers, listenerTimers,
                 completeTimers, apiKey, inFlight, requestsSent, sourceCalls, clock>>
  /\ UNCHANGED <<fileVars, calVars, wordVars, stabVars, clickVars>>

HandleStartTracking ==
  /\ StartButtonEnabled
  /\ IF ~isCalibrated
     THEN UNCHANGED <<isTracking, isTrackingRef, gazePointsRef, gazePoints,
                      gazeListener, syncInterval, delivered, heldExports>>
     ELSE /\ gazeListener' = IF webgazer = "loaded" THEN "tracking" ELSE gazeListener
          /\ isTracking' = TRUE
          /\ isTrackingRef' = TRUE
          /\ gazePointsRef' = <<>>
          /\ heldExports' = Detached(heldExports)
          /\ gazePoints' = <<>>
          /\ syncInterval' = TRUE
          /\ delivered' = <<>>
  /\ pageEvent' = "start"
  /\ UNCHANGED <<isCalibrated, showCalibration, isAnalyzing, analysisResult,
                 analysisError, webgazer, showTimers, listenerTimers,
                 completeTimers, apiKey, inFlight, requestsSent, sourceCalls, clock>>
  /\ UNCHANGED <<fileVars, calVars, wordVars, stabVars, clickVars>>

HandleStopTracking_NoFinalSync ==
  /\ isTracking
  /\ isTracking' = FALSE
  /\ isTrackingRef' = FALSE
  /\ syncInterval' = FALSE
  /\ pageEvent' = "stop"
  /\ UNCHANGED <<isCalibrated, showCalibration, gazePoints, gazePointsRef, isAnalyzing,
                 analysisResult, analysisError, webgazer, gazeListener, showTimers,
                 listenerTimers, completeTimers, apiKey, inFlight, requestsSent,
                 sourceCalls, clock, delivered>>
  /\ UNCHANGED <<exportVars, calVars, wordVars, stabVars, clickVars>>

\* ControlPanel renders the Stop button only while tracking
HandleStopTracking ==
  /\ isTracking
  /\ isTracking' = FALSE
  /\ isTrackingRef' = FALSE
  /\ gazePoints' = gazePointsRef
  /\ syncInterval' = FALSE
  /\ pageEvent' = "stop"
  /\ UNCHANGED <<isCalibrated, showCalibration, gazePointsRef, isAnalyzing,
                 analysisResult, analysisError, webgazer, gazeListener, showTimers,
                 listenerTimers, completeTimers, apiKey, inFlight, requestsSent,
                 sourceCalls, clock, delivered>>
  /\ UNCHANGED <<exportVars, calVars, wordVars, stabVars, clickVars>>

HandleRecalibrate_KeepsTracking ==
  /\ showTimers + ShowEffectTimers(isCalibrated, webgazer = "loaded", FALSE) <= MaxTimers
  /\ gazePointsRef' = <<>>
  /\ gazePoints' = <<>>
  /\ isCalibrated' = FALSE
  /\ showCalibration' = TRUE
  /\ showTimers' = showTimers + ShowEffectTimers(isCalibrated, webgazer = "loaded", FALSE)
  /\ pageEvent' = "recalibrate"
  /\ heldExports' = Detached(heldExports)
  /\ UNCHANGED <<isTracking, isTrackingRef, syncInterval, isAnalyzing, analysisResult,
                 analysisError, webgazer, gazeListener,
                 listenerTimers, completeTimers, apiKey, inFlight, requestsSent,
                 sourceCalls, clock, delivered>>
  /\ UNCHANGED <<fileVars, calVars, wordVars, stabVars, clickVars>>

\* A recalibration that leaves the recorded samples in place
HandleRecalibrate_KeepsSamples ==
  /\ showTimers + ShowEffectTimers(isCalibrated, webgazer = "loaded", FALSE) <= MaxTimers
  /\ isTracking' = FALSE
  /\ isTrackingRef' = FALSE
  /\ isCalibrated' = FALSE
  /\ showCalibration' = TRUE
  /\ syncInterval' = FALSE
  /\ showTimers' = showTimers + ShowEffectTimers(isCalibrated, webgazer = "loaded", FALSE)
  /\ pageEvent' = "recalibrate"
  /\ UNCHANGED <<gazePointsRef, gazePoints, heldExports, isAnalyzing, analysisResult,
                 analysisError, webgazer, gazeListener,
                 listenerTimers, completeTimers, apiKey, inFlight, requestsSent,
                 sourceCalls, clock, delivered>>
  /\ UNCHANGED <<fileVars, calVars, wordVars, stabVars, clickVars>>

HandleRecalibrate ==
  /\ showTimers + ShowEffectTimers(isCalibrated, webgazer = "loaded", FALSE) <= MaxTimers
  /\ isTracking' = FALSE
  /\ isTrackingRef' = FALSE
  /\ gazePointsRef' = <<>>
  /\ gazePoints' = <<>>
  /\ isCalibrated' = FALSE
  /\ showCalibration' = TRUE
  /\ syncInterval' = FALSE
  /\ showTimers' = showTimers + ShowEffectTimers(isCalibrated, webgazer = "loaded", FALSE)
  /\ pageEvent' = "recalibrate"
  /\ heldExports' = Detached(heldExports)
  /\ UNCHANGED <<isAnalyzing, analysisResult, analysisError, webgazer, gazeListener,
                 listenerTimers, completeTimers, apiKey, inFlight, requestsSent,
                 sourceCalls, clock, delivered>>
  /\ UNCHANGED <<fileVars, calVars, wordVars, stabVars, clickVars>>

\* The modal's onClose (Skip for Now): setShowCalibration(false)
ModalSkip ==
  /\ showCalibration
  /\ showCalibration' = FALSE
  /\ pageEvent' = "skip"
  /\ UNCHANGED <<isCalibrated, isTracking, gazePoints, isTrackingRef,
                 gazePointsRef, isAnalyzing, analysisResult, analysisError,
                 webgazer, gazeListener, syncInterval, showTimers, listenerTimers,
                 completeTimers, apiKey, inFlight, requestsSent, sourceCalls, clock,
                 delivered>>
  /\ UNCHANGED <<exportVars, calVars, wordVars, stabVars, clickVars>>

\* The mounted modal records its last point: setTimeout(() => onComplete(), 500)
ModalLastClick ==
  /\ showCalibration
  /\ webgazer = "loaded"
  /\ completeTimers < MaxTimers
  /\ completeTimers' = completeTimers + 1
  /\ pageEvent' = "lastClick"
  /\ UNCHANGED <<isCalibrated, isTracking, showCalibration, gazePoints, isTrackingRef,
                 gazePointsRef, isAnalyzing, analysisResult, analysisError,
                 webgazer, gazeListener, syncInterval, showTimers, listenerTimers,
                 apiKey, inFlight, requestsSent, sourceCalls, clock, delivered>>
  /\ UNCHANGED <<exportVars, calVars, wordVars, stabVars, clickVars>>

\* The modal's timeout fires: onComplete = handleCalibrationComplete
HandleCalibrationComplete ==
  /\ completeTimers > 0
  /\ listenerTimers < MaxTimers
  /\ completeTimers' = completeTimers - 1
  /\ isCalibrated' = TRUE
  /\ showCalibration' = FALSE
  /\ listenerTimers' = listenerTimers + 1
  /\ pageEvent' = "complete"
  /\ UNCHANGED <<isTracking, gazePoints, isTrackingRef,
                 gazePointsRef, isAnalyzing, analysisResult, analysisError,
                 webgazer, gazeListener, syncInterval, showTimers,
                 apiKey, inFlight, requestsSent, sourceCalls, clock, delivered>>
  /\ UNCHANGED <<exportVars, calVars, wordVars, stabVars, clickVars>>

\* The 100 ms timeout of handleCalibrationComplete fires
RestoreListener ==
  /\ listenerTimers > 0
  /\ listenerTimers' = listenerTimers - 1
  /\ gazeListener' = IF webgazer = "loaded" THEN "tracking" ELSE gazeListener
  /\ pageEvent' = "listener"
  /\ UNCHANGED <<isCalibrated, isTracking, showCalibration, gazePoints, isTrackingRef,
                 gazePointsRef, isAnalyzing, analysisResult, analysisError,
                 webgazer, syncInterval, showTimers, completeTimers,
                 apiKey, inFlight, requestsSent, sourceCalls, clock, delivered>>
  /\ UNCHANGED <<exportVars, calVars, wordVars, stabVars, clickVars>>

\* ControlPanel: the Analyze button is rendered when the published count is
\* positive and is disabled while an analysis runs
\* How a call of analyzeGazeData can end: "nokey" throws before any request
Outcomes == {"ok", "network", "status", "malformed"}

Failures == {"nokey", "network", "status", "malformed"}

\* error.message of the Error that analyzeGazeData throws
OutcomeMessage(outcome) ==
  CASE outcome = "nokey"     -> "Gemini API key is not configured"
    [] outcome = "network"   -> "Failed to fetch"
    [] outcome = "status"    -> "Gemini API error"
    [] outcome = "malformed" -> "Invalid response from Gemini API"
    [] OTHER                 -> "null"

\* analysisResult after the try / catch: only the try branch calls setAnalysisResult
ResultAfter_ClearedOnFailure(outcome, result, previous) ==
  IF outcome = "ok" THEN result ELSE 0

ResultAfter(outcome, result, previous) ==
  IF outcome = "ok" THEN result ELSE previous

AnalyzeButtonEnabled_NeverDisabled == Len(gazePoints) > 0

AnalyzeButtonEnabled == Len(gazePoints) > 0 /\ ~isAnalyzing

\* The guard both handlers open with: gazePointsRef.current.length === 0
NoTrackingData_Never == FALSE

NoTrackingData == Len(gazePointsRef) = 0

\* getExportData reading the published list instead of the ref
getExportData_FromPublished ==
  [ metadata |->
      [ sessionDuration |->
          IF Len(gazePoints) > 0
          THEN gazePoints[Len(gazePoints)].timestamp - gazePoints[1].timestamp
          ELSE 0,
        totalGazePoints |-> Len(gazePoints),
        calibrated |-> isCalibrated ],
    rawGazeData |-> gazePointsRef ]

\* getExportData: metadata and the raw samples of the ref (the export
\* timestamp and the text container bounds are left out)
getExportData ==
  [ metadata |->
      [ sessionDuration |->
          IF Len(gazePointsRef) > 0
          THEN gazePointsRef[Len(gazePointsRef)].timestamp - gazePointsRef[1].timestamp
          ELSE 0,
        totalGazePoints |-> Len(gazePointsRef),
        calibrated |-> isCalibrated ],
    rawGazeData |-> gazePointsRef ]

\* handleExportData, as a function of the page state
handleExportData ==
  /\ IF NoTrackingData
     THEN /\ pageEvent' = "exportRejected"
          /\ UNCHANGED exportVars
     ELSE \* the object is serialised with JSON.stringify and dropped
          /\ lastExport' = getExportData
          /\ downloads' = downloads + 1
          /\ pageEvent' = "export"
          /\ UNCHANGED heldExports
  /\ UNCHANGED <<isCalibrated, isTracking, showCalibration, gazePoints, isTrackingRef,
                 gazePointsRef, isAnalyzing, analysisResult, analysisError,
                 webgazer, gazeListener, syncInterval, showTimers, listenerTimers,
                 completeTimers, apiKey, inFlight, requestsSent, sourceCalls, clock,
                 delivered>>
  /\ UNCHANGED <<calVars, wordVars, stabVars, clickVars>>

\* handleAnalyzeWithAI up to its await, as a function of the page state
handleAnalyzeWithAI ==
  /\ IF NoTrackingData
     THEN /\ pageEvent' = "rejected"
          /\ UNCHANGED <<isAnalyzing, analysisError, analysisResult, inFlight, requestsSent,
                         heldExports>>
     ELSE IF ~apiKey
     THEN \* analyzeGazeData throws before any request; catch and finally run
          /\ analysisError' = OutcomeMessage("nokey")
          /\ analysisResult' = ResultAfter("nokey", 0, analysisResult)
          /\ isAnalyzing' = FALSE
          /\ pageEvent' = "nokey"
          /\ UNCHANGED <<inFlight, requestsSent, heldExports>>
     ELSE /\ isAnalyzing' = TRUE
          /\ analysisError' = "null"
          /\ requestsSent' = requestsSent + 1
          /\ inFlight' = inFlight \cup {requestsSent + 1}
          /\ heldExports' = heldExports \cup
               { [request |-> requestsSent + 1,
                  metadata |-> getExportData.metadata,
                  rawGazeData |-> getExportData.rawGazeData,
                  live |-> TRUE] }
          /\ pageEvent' = "analyze"
          /\ UNCHANGED analysisResult
  /\ UNCHANGED <<isCalibrated, isTracking, showCalibration, gazePoints, isTrackingRef,
                 gazePointsRef, webgazer, gazeListener, syncInterval,
                 showTimers, listenerTimers, completeTimers, apiKey, sourceCalls,
                 clock, delivered>>
  /\ UNCHANGED <<fileVars, calVars, wordVars, stabVars, clickVars>>

\* A click on the Analyze button
HandleAnalyzeWithAI ==
  /\ AnalyzeButtonEnabled
  /\ requestsSent < MaxRequests
  /\ handleAnalyzeWithAI

\* The awaited analyzeGazeData settles: try / catch / finally
AnalysisSettled ==
  /\ \E request \in inFlight : \E outcome \in Outcomes :
       /\ inFlight' = inFlight \ {request}
       /\ analysisResult' = ResultAfter(outcome, request, analysisResult)
       /\ analysisError' = IF outcome = "ok" THEN analysisError
                                             ELSE OutcomeMessage(outcome)
       /\ pageEvent' = outcome
       /\ heldExports' = { e \in heldExports : e.request # request }
  /\ isAnalyzing' = FALSE
  /\ UNCHANGED <<isCalibrated, isTracking, showCalibration, gazePoints, isTrackingRef,
                 gazePointsRef, webgazer, gazeListener, syncInterval,
                 showTimers, listenerTimers, completeTimers, apiKey, requestsSent,
                 sourceCalls, clock, delivered>>
  /\ UNCHANGED <<fileVars, calVars, wordVars, stabVars, clickVars>>

NextPage ==
  \/ ScriptLoaded
  \/ ScriptFailed
  \/ ShowCalibrationTimer
  \/ GazeCallback
  \/ SyncTick
  \/ HandleStartTracking
  \/ HandleStopTracking
  \/ HandleRecalibrate
  \/ ModalSkip
  \/ ModalLastClick
  \/ HandleCalibrationComplete
  \/ RestoreListener
  \/ HandleAnalyzeWithAI
  \/ AnalysisSettled

SpecPage == InitPage /\ [][NextPage]_vars

\* C7: tracking is on only while the page is calibrated, so the listener can
\* record samples only in a calibrated state.
C7_TrackingImpliesCalibrated ==
  (isTracking \/ isTrackingRef) => isCalibrated

\* Witness of C7: tracking runs and has recorded a sample
C7_Witness == isTracking /\ isCalibrated /\ Len(gazePointsRef) > 0

\* C8: right after handleStopTracking the published list is exactly the valid
\* samples delivered since handleStartTracking, in arrival order.
C8_StopPublishesAllSamples ==
  pageEvent = "stop" => gazePoints = delivered /\ gazePointsRef = delivered

\* Witness of C8: a stop after at least two valid samples were delivered
C8_Witness == pageEvent = "stop" /\ Len(delivered) >= 2

C10_OneAnalysisInFlight ==
  /\ Cardinality(inFlight) <= 1
  /\ isAnalyzing <=> inFlight # {}

\* Witness of C10: a request is pending while the Analyze button is rendered
C10_Witness == isAnalyzing /\ inFlight # {} /\ Len(gazePoints) > 0

\* C11: a failed analysis (missing key, network error, non-OK response,
\* malformed payload) leaves analysisResult as it was, sets analysisError to
\* the failure's message and returns isAnalyzing to false.
C11_FailureKeepsResult ==
  [][pageEvent' \in Failures =>
       /\ analysisResult' = analysisResult
       /\ analysisError' = OutcomeMessage(pageEvent')
       /\ ~isAnalyzing'
       /\ inFlight' = {}]_vars

\* Witness of C11: a request failed while an earlier result was stored
C11_Witness ==
  /\ pageEvent \in Failures \ {"nokey"}
  /\ analysisResult # 0
  /\ analysisError = OutcomeMessage(pageEvent)
  /\ ~isAnalyzing

(***************************************************************************)
(* Specification SpecHandlers: handleExportData and handleAnalyzeWithAI of  *)
(* pages/Index.tsx called as functions on a page state, whatever the       *)
(* buttons of the ControlPanel allow                                       *)
(***************************************************************************)
\* Samples the listener may have recorded, in arrival order
RecordedSamples ==
  [i \in 1..(IF MaxCalls > MaxRecorded THEN MaxCalls ELSE MaxRecorded) |->
     [n |-> i, timestamp |-> IF i = 1 THEN 1000 ELSE IF i = 2 THEN 1500 ELSE 4000]]

\* Page states between two handlers: the published list is a prefix of the
\* recorded one, samples exist only on a calibrated page, no request is pending
InitHandlers ==
  /\ isCalibrated \in BOOLEAN
  /\ isTracking \in BOOLEAN
  /\ isTracking => isCalibrated
  /\ isTrackingRef = isTracking
  /\ syncInterval = isTracking
  /\ showCalibration = FALSE
  /\ \E k \in 0..MaxRecorded : \E j \in 0..k :
       /\ k > 0 => isCalibrated
       /\ gazePointsRef = SubSeq(RecordedSamples, 1, k)
       /\ gazePoints = SubSeq(RecordedSamples, 1, j)
       /\ ~isTracking => j = k
       /\ sourceCalls = k
  /\ delivered = gazePointsRef
  /\ clock = 1
  /\ webgazer = "loaded"
  /\ gazeListener = IF isCalibrated THEN "tracking" ELSE "initial"
  /\ showTimers = 0
  /\ listenerTimers = 0
  /\ completeTimers = 0
  /\ apiKey \in BOOLEAN
  /\ isAnalyzing = FALSE
  /\ inFlight = {}
  /\ requestsSent = 0
  /\ analysisResult \in (IF apiKey /\ Len(gazePoints) > 0 THEN {0, MaxRequests + 1} ELSE {0})
  /\ analysisError \in (IF Len(gazePoints) = 0 THEN {"null"}
                        ELSE IF apiKey THEN {"null", OutcomeMessage("network")}
                        ELSE {"null", OutcomeMessage("nokey")})
  /\ pageEvent = "render"
  /\ downloads = 0
  /\ lastExport = NoExport
  /\ heldExports = {}
  /\ CalRest
  /\ WordRest
  /\ StabRest
  /\ ClickRest

ExportRequested ==
  /\ downloads < MaxExports
  /\ handleExportData

AnalyzeRequested ==
  /\ requestsSent < MaxRequests
  /\ handleAnalyzeWithAI

NextHandlers ==
  \/ ExportRequested
  \/ AnalyzeRequested
  \/ AnalysisSettled

SpecHandlers == InitHandlers /\ [][NextHandlers]_vars

\* C23: for every recorded sample list getExportData returns totalGazePoints
\* equal to the number of recorded samples and sessionDuration equal to the
\* last timestamp minus the first, 0 with fewer than two samples; the file
\* written by an export carries these values for the list recorded at the call.
C23_ExportMetadataFromSamples ==
  /\ [](LET n == Len(gazePointsRef)
        IN /\ getExportData.metadata.totalGazePoints = n
           /\ getExportData.metadata.sessionDuration =
                IF n < 2 THEN 0
                ELSE gazePointsRef[n].timestamp - gazePointsRef[1].timestamp)
  /\ [][downloads' # downloads =>
          LET n == Len(gazePointsRef)
          IN /\ lastExport'.metadata.totalGazePoints = n
             /\ lastExport'.metadata.sessionDuration =
                  IF n < 2 THEN 0
                  ELSE gazePointsRef[n].timestamp - gazePointsRef[1].timestamp]_vars

\* Witness of C23: samples at 1000, 1500 and 4000 were exported with
\* sessionDuration 3000 and totalGazePoints 3 while fewer were published
C23_Witness ==
  /\ downloads > 0
  /\ Len(gazePointsRef) = 3
  /\ Len(gazePoints) < 3
  /\ gazePointsRef[1].timestamp = 1000
  /\ gazePointsRef[2].timestamp = 1500
  /\ gazePointsRef[3].timestamp = 4000
  /\ lastExport.metadata.sessionDuration = 3000
  /\ lastExport.metadata.totalGazePoints = 3

\* C24: an export object is a snapshot: at every moment after getExportData
\* returned it, its rawGazeData is the list it was built from, so its
\* metadata.totalGazePoints equals the length of its rawGazeData.
C24_ExportIsSnapshot ==
  \A e \in heldExports : e.metadata.totalGazePoints = Len(e.rawGazeData)

\* C39: in every reachable state of the page a non-empty recorded sample list
\* implies isCalibrated, whatever the order of calibrate, skip, start, stop and
\* recalibrate; so the export object built from a non-empty list, and every
\* export object an analysis holds with samples in it, has
\* metadata.calibrated = TRUE.
C39_SamplesImplyCalibrated ==
  /\ gazePointsRef # <<>> => isCalibrated
  /\ getExportData.rawGazeData # <<>> => getExportData.metadata.calibrated
  /\ \A e \in heldExports : e.rawGazeData # <<>> => e.metadata.calibrated

\* Samples are on record after tracking was stopped, and an analysis holds an
\* export built from them
C39_Witness ==
  /\ gazePointsRef # <<>>
  /\ ~isTracking
  /\ \E e \in heldExports : e.rawGazeData # <<>> /\ e.metadata.calibrated

\* C32: every tracking session starts from an empty record: right after a
\* handleStartTracking that succeeds and right after handleRecalibrate the
\* recorded list and the published list are both empty, and handleStopTracking
\* removes no recorded sample.
C32_SessionStartsEmpty ==
  [][/\ ((isCalibrated /\ HandleStartTracking) \/ HandleRecalibrate) =>
          (gazePointsRef' = <<>> /\ gazePoints' = <<>>)
     /\ HandleStopTracking => gazePointsRef' = gazePointsRef]_vars

\* Witness of C32: a session whose samples were handed to an analysis has been
\* followed by a start, and both lists are empty
C32_Witness ==
  /\ pageEvent = "start"
  /\ isTracking
  /\ requestsSent > 0
  /\ sourceCalls > 0
  /\ gazePointsRef = <<>>
  /\ gazePoints = <<>>

\* C12: export or analysis requested while the recorded sample list is empty
\* produces no export object and no download, sends no request, and leaves
\* isAnalyzing, analysisResult and analysisError unchanged.
C12_EmptyRequestsRejected ==
  [][(Len(gazePointsRef) = 0 /\ (ExportRequested \/ AnalyzeRequested)) =>
       UNCHANGED <<downloads, lastExport, requestsSent, inFlight,
                   isAnalyzing, analysisResult, analysisError>>]_vars

\* Witness of C12: a handler ran on an empty recorded list
C12_Witness ==
  /\ Len(gazePointsRef) = 0
  /\ pageEvent \in {"exportRejected", "rejected"}
  /\ downloads = 0 /\ requestsSent = 0

(***************************************************************************)
(* Specification SpecStab: the CalibrationModal that counts down and then   *)
(* waits for the gaze to stabilize on each point                            *)
(***************************************************************************)
COUNTDOWN_DURATION      == 3     \* seconds
STABILIZATION_THRESHOLD == 50    \* pixels
STABILIZATION_DURATION  == 400   \* milliseconds
CHECK_INTERVAL          == 100   \* milliseconds between stabilization checks
RECENT_SAMPLES          == 5     \* slice(-5)
MIN_SAMPLES             == 3

InnerWidth  == 1000   \* window.innerWidth
InnerHeight == 1000   \* window.innerHeight

Pt(x, y) == [x |-> x, y |-> y]

\* Calibration points ordered: corners first, edges, center last
calibrationPoints ==
  << Pt(10, 10), Pt(90, 10), Pt(10, 90), Pt(90, 90),
     Pt(50, 10), Pt(10, 50), Pt(90, 50), Pt(50, 90),
     Pt(50, 50) >>

CenterPoint == Pt(50, 50)

\* Pixel position of the target of a step
TargetOf(points, step) ==
  [x |-> (InnerWidth * points[step + 1].x) \div 100,
   y |-> (InnerHeight * points[step + 1].y) \div 100]

\* Where a sample can fall relative to the current target: 50px off, on the
\* threshold, or 300px off
SampleOffsets == { Pt(30, 40), Pt(180, 240) }

\* A bag of timers kept as a sorted sequence
RECURSIVE SortedInsert(_, _)
SortedInsert(seq, v) ==
  IF seq = <<>> THEN <<v>>
  ELSE IF v <= Head(seq) THEN <<v>> \o seq
       ELSE <<Head(seq)>> \o SortedInsert(Tail(seq), v)

RemoveAt(seq, i) == SubSeq(seq, 1, i - 1) \o SubSeq(seq, i + 1, Len(seq))

\* slice(-n)
LastN(seq, n) ==
  IF Len(seq) <= n THEN seq ELSE SubSeq(seq, Len(seq) - n + 1, Len(seq))

\* distance(averageGazeSamples(samples), target) <= threshold, in integers:
\* |sum - n * target| <= n * threshold
AverageWithin_Anywhere(samples, target, threshold) == TRUE

AverageWithin(samples, target, threshold) ==
  LET n  == Len(samples)
      dx == SumSeq([i \in 1..n |-> samples[i].x]) - n * target.x
      dy == SumSeq([i \in 1..n |-> samples[i].y]) - n * target.y
  IN dx * dx + dy * dy <= (n * threshold) * (n * threshold)

InitStab ==
  /\ isOpen = FALSE
  /\ phase = "idle"
  /\ calibrationStep = 0
  /\ countdownValue = NULL
  /\ isStabilizing = FALSE
  /\ gazeSamplesRef = <<>>
  /\ stabilizationStartRef = NULL
  /\ countdownTimerRef = NULL
  /\ strayCountdowns = <<>>
  /\ advanceTimers = <<>>
  /\ doneTimers = 0
  /\ calibrationListener = FALSE
  /\ hasWebgazer \in BOOLEAN
  /\ lastRecorded = -1
  /\ acceptedVia = "none"
  /\ onCompleteCalls = 0
  /\ CalRest
  /\ WordRest
  /\ PageRest
  /\ ClickRest

\* The stabilization effect keeps its 100 ms interval exactly in these states
StabilizationIntervalLive ==
  phase = "calibrating" /\ countdownValue = NULL /\ isStabilizing

\* startCountdown: a new interval replaces the ref; an interval the ref still
\* held keeps running without a handle
StartCountdown ==
  /\ countdownTimerRef # NULL => Len(strayCountdowns) < MaxStray
  /\ countdownValue' = COUNTDOWN_DURATION
  /\ isStabilizing' = FALSE
  /\ stabilizationStartRef' = NULL
  /\ gazeSamplesRef' = <<>>
  /\ countdownTimerRef' = COUNTDOWN_DURATION
  /\ strayCountdowns' = IF countdownTimerRef # NULL
                        THEN SortedInsert(strayCountdowns, countdownTimerRef)
                        ELSE strayCountdowns

\* handleStabilized, with the calibrationStep of the current render
HandleStabilized(caller) ==
  IF ~hasWebgazer
  THEN UNCHANGED <<recorded, advanceTimers, doneTimers>>
  ELSE /\ lastRecorded' = calibrationStep
       /\ acceptedVia' = caller
       /\ IF calibrationStep < Len(calibrationPoints) - 1
          THEN /\ Len(advanceTimers) < MaxAdvance
               /\ advanceTimers' = SortedInsert(advanceTimers, calibrationStep)
               /\ UNCHANGED doneTimers
          ELSE /\ doneTimers < MaxDone
               /\ doneTimers' = doneTimers + 1
               /\ UNCHANGED advanceTimers

\* The parent renders the modal with isOpen = true
OpenModal ==
  /\ ~isOpen
  /\ isOpen' = TRUE
  /\ calibrationListener' = (calibrationListener \/ (hasWebgazer /\ phase = "calibrating"))
  /\ UNCHANGED <<phase, calibrationStep, countdownValue, isStabilizing,
                 gazeSamplesRef, stabilizationStartRef, countdownTimerRef,
                 strayCountdowns, advanceTimers, doneTimers, hasWebgazer,
                 recorded, onCompleteCalls>>
  /\ UNCHANGED <<calVars, wordVars, pageVars, clickVars>>

\* isOpen becomes false: the reset effect with cleanupTimers
CloseModal ==
  /\ isOpen
  /\ isOpen' = FALSE
  /\ phase' = "idle"
  /\ calibrationStep' = 0
  /\ countdownValue' = NULL
  /\ isStabilizing' = FALSE
  /\ gazeSamplesRef' = <<>>
  /\ stabilizationStartRef' = NULL
  /\ countdownTimerRef' = NULL
  /\ UNCHANGED <<strayCountdowns, advanceTimers, doneTimers, calibrationListener,
                 hasWebgazer, recorded, onCompleteCalls>>
  /\ UNCHANGED <<calVars, wordVars, pageVars, clickVars>>

HandleStartCalibration ==
  /\ isOpen
  /\ phase = "idle"
  /\ phase' = "calibrating"
  /\ calibrationStep' = 0
  /\ StartCountdown
  /\ calibrationListener' = (calibrationListener \/ hasWebgazer)
  /\ lastRecorded' = -1
  /\ acceptedVia' = "none"
  /\ onCompleteCalls' = 0
  /\ UNCHANGED <<isOpen, advanceTimers, doneTimers, hasWebgazer>>
  /\ UNCHANGED <<calVars, wordVars, pageVars, clickVars>>

\* The registered listener receives a sample with coordinates and pushes it
ListenerPushes ==
  /\ calibrationListener
  /\ \E offset \in SampleOffsets :
       LET target == TargetOf(calibrationPoints, calibrationStep)
       IN gazeSamplesRef' =
            Append(gazeSamplesRef,
                   [x |-> target.x + offset.x, y |-> target.y + offset.y,
                    inCountdown |-> countdownValue # NULL])
  /\ UNCHANGED <<isOpen, phase, calibrationStep, countdownValue, isStabilizing,
                 stabilizationStartRef, countdownTimerRef,
                 strayCountdowns, advanceTimers, doneTimers, calibrationListener,
                 hasWebgazer, recorded, onCompleteCalls>>
  /\ UNCHANGED <<calVars, wordVars, pageVars, clickVars>>

CalibrationSample ==
  /\ Len(gazeSamplesRef) < MaxBuf
  /\ ListenerPushes

\* The interval held by countdownTimerRef fires
CountdownTick ==
  /\ countdownTimerRef # NULL
  /\ LET count == IF countdownTimerRef > 0 THEN countdownTimerRef - 1 ELSE 0
     IN IF count > 0
        THEN /\ countdownValue' = count
             /\ countdownTimerRef' = count
             /\ UNCHANGED isStabilizing
        ELSE /\ countdownValue' = NULL
             /\ isStabilizing' = TRUE
             /\ countdownTimerRef' = NULL
  /\ UNCHANGED <<isOpen, phase, calibrationStep, gazeSamplesRef,
                 stabilizationStartRef, strayCountdowns, advanceTimers,
                 doneTimers, calibrationListener, hasWebgazer, recorded,
                 onCompleteCalls>>
  /\ UNCHANGED <<calVars, wordVars, pageVars, clickVars>>

\* A countdown interval without a handle fires; at zero its cleanupTimers
\* clears whatever interval the ref holds, and it keeps running itself
StrayCountdownTick ==
  /\ \E i \in 1..Len(strayCountdowns) :
       LET count == IF strayCountdowns[i] > 0 THEN strayCountdowns[i] - 1 ELSE 0
       IN /\ strayCountdowns' = SortedInsert(RemoveAt(strayCountdowns, i), count)
          /\ IF count > 0
             THEN /\ countdownValue' = count
                  /\ UNCHANGED <<isStabilizing, countdownTimerRef>>
             ELSE /\ countdownValue' = NULL
                  /\ isStabilizing' = TRUE
                  /\ countdownTimerRef' = NULL
  /\ UNCHANGED <<isOpen, phase, calibrationStep, gazeSamplesRef,
                 stabilizationStartRef, advanceTimers,
                 doneTimers, calibrationListener, hasWebgazer, recorded,
                 onCompleteCalls>>
  /\ UNCHANGED <<calVars, wordVars, pageVars, clickVars>>

\* Time passes while the stabilization clock runs
TimePasses ==
  /\ stabilizationStartRef # NULL
  /\ stabilizationStartRef < STABILIZATION_DURATION
  /\ stabilizationStartRef' =
       IF stabilizationStartRef + CHECK_INTERVAL >= STABILIZATION_DURATION
       THEN STABILIZATION_DURATION
       ELSE stabilizationStartRef + CHECK_INTERVAL
  /\ UNCHANGED <<isOpen, phase, calibrationStep, countdownValue, isStabilizing,
                 gazeSamplesRef, countdownTimerRef,
                 strayCountdowns, advanceTimers, doneTimers, calibrationListener,
                 hasWebgazer, recorded, onCompleteCalls>>
  /\ UNCHANGED <<calVars, wordVars, pageVars, clickVars>>

\* The 100 ms interval of the stabilization effect fires: checkStabilization
CheckStabilization ==
  /\ StabilizationIntervalLive
  /\ IF ~hasWebgazer \/ Len(gazeSamplesRef) < MIN_SAMPLES
     THEN UNCHANGED <<stabilizationStartRef, recorded, advanceTimers, doneTimers>>
     ELSE IF AverageWithin(LastN(gazeSamplesRef, RECENT_SAMPLES),
                           TargetOf(calibrationPoints, calibrationStep),
                           STABILIZATION_THRESHOLD)
     THEN IF stabilizationStartRef = NULL
          THEN /\ stabilizationStartRef' = 0
               /\ UNCHANGED <<recorded, advanceTimers, doneTimers>>
          ELSE IF stabilizationStartRef >= STABILIZATION_DURATION
          THEN HandleStabilized("check") /\ UNCHANGED stabilizationStartRef
          ELSE UNCHANGED <<stabilizationStartRef, recorded, advanceTimers, doneTimers>>
     ELSE /\ stabilizationStartRef' = NULL
          /\ UNCHANGED <<recorded, advanceTimers, doneTimers>>
  /\ UNCHANGED <<isOpen, phase, calibrationStep, countdownValue, isStabilizing,
                 gazeSamplesRef, countdownTimerRef, strayCountdowns,
                 calibrationListener, hasWebgazer, onCompleteCalls>>
  /\ UNCHANGED <<calVars, wordVars, pageVars, clickVars>>

\* A click that would be accepted only once the stabilization clock has run out
ClickAccepts_OnlyStabilized(index) ==
  /\ calibrationStep = index
  /\ phase = "calibrating"
  /\ stabilizationStartRef # NULL
  /\ stabilizationStartRef >= STABILIZATION_DURATION

\* The test of handleCalibrationClick(index)
ClickAccepts(index) ==
  /\ calibrationStep = index
  /\ phase = "calibrating"

\* handleCalibrationClick on the target button, rendered after the countdown for
\* the current step only
HandleCalibrationClick ==
  /\ isOpen
  /\ phase = "calibrating"
  /\ countdownValue = NULL
  /\ ClickAccepts(calibrationStep)
  /\ HandleStabilized("click")
  /\ UNCHANGED <<isOpen, phase, calibrationStep, countdownValue, isStabilizing,
                 gazeSamplesRef, stabilizationStartRef, countdownTimerRef,
                 strayCountdowns, calibrationListener, hasWebgazer, onCompleteCalls>>
  /\ UNCHANGED <<calVars, wordVars, pageVars, clickVars>>

\* A 200 ms timeout of handleStabilized fires with the step it captured
AdvanceTimer ==
  /\ \E i \in 1..Len(advanceTimers) :
       /\ calibrationStep' = advanceTimers[i] + 1
       /\ advanceTimers' = RemoveAt(advanceTimers, i)
  /\ StartCountdown
  /\ UNCHANGED <<isOpen, phase, doneTimers, calibrationListener, hasWebgazer,
                 recorded, onCompleteCalls>>
  /\ UNCHANGED <<calVars, wordVars, pageVars, clickVars>>

\* The 500 ms timeout of the last point fires: setPhase("complete"), onComplete()
DoneTimer ==
  /\ doneTimers > 0
  /\ onCompleteCalls < MaxCompletes
  /\ doneTimers' = doneTimers - 1
  /\ phase' = "complete"
  /\ onCompleteCalls' = onCompleteCalls + 1
  /\ UNCHANGED <<isOpen, calibrationStep, countdownValue, isStabilizing,
                 gazeSamplesRef, stabilizationStartRef, countdownTimerRef,
                 strayCountdowns, advanceTimers, calibrationListener,
                 hasWebgazer, recorded>>
  /\ UNCHANGED <<calVars, wordVars, pageVars, clickVars>>

\* The button of the completion card: handleComplete
HandleComplete ==
  /\ isOpen
  /\ phase = "complete"
  /\ onCompleteCalls < MaxCompletes
  /\ onCompleteCalls' = onCompleteCalls + 1
  /\ UNCHANGED <<isOpen, phase, calibrationStep, countdownValue, isStabilizing,
                 gazeSamplesRef, stabilizationStartRef, countdownTimerRef,
                 strayCountdowns, advanceTimers, doneTimers, calibrationListener,
                 hasWebgazer, recorded>>
  /\ UNCHANGED <<calVars, wordVars, pageVars, clickVars>>

\* After onComplete the page registers its tracking listener again
TrackingListenerRestored ==
  /\ calibrationListener
  /\ onCompleteCalls > 0
  /\ calibrationListener' = FALSE
  /\ UNCHANGED <<isOpen, phase, calibrationStep, countdownValue, isStabilizing,
                 gazeSamplesRef, stabilizationStartRef, countdownTimerRef,
                 strayCountdowns, advanceTimers, doneTimers,
                 hasWebgazer, recorded, onCompleteCalls>>
  /\ UNCHANGED <<calVars, wordVars, pageVars, clickVars>>

NextStab ==
  \/ OpenModal
  \/ CloseModal
  \/ HandleStartCalibration
  \/ CalibrationSample
  \/ CountdownTick
  \/ StrayCountdownTick
  \/ TimePasses
  \/ CheckStabilization
  \/ HandleCalibrationClick
  \/ AdvanceTimer
  \/ DoneTimer
  \/ HandleComplete
  \/ TrackingListenerRestored

SpecStab == InitStab /\ [][NextStab]_vars

(***************************************************************************)
(* Specification SpecWindow: the stabilization window of one calibration   *)
(* point, from the end of its countdown to the end of its advance delay,   *)
(* with enough samples for the five-sample average to slide                *)
(***************************************************************************)
InitWindow ==
  /\ isOpen = TRUE
  /\ phase = "calibrating"
  /\ calibrationStep \in 0..(Len(calibrationPoints) - 1)
  /\ countdownValue = NULL
  /\ isStabilizing = TRUE
  /\ gazeSamplesRef = <<>>
  /\ stabilizationStartRef = NULL
  /\ countdownTimerRef = NULL
  /\ strayCountdowns = <<>>
  /\ advanceTimers = <<>>
  /\ doneTimers = 0
  /\ hasWebgazer \in BOOLEAN
  /\ calibrationListener = hasWebgazer
  /\ lastRecorded = IF hasWebgazer THEN calibrationStep - 1 ELSE -1
  /\ acceptedVia = "none"
  /\ onCompleteCalls = 0
  /\ CalRest
  /\ WordRest
  /\ PageRest
  /\ ClickRest

WindowSample ==
  /\ Len(gazeSamplesRef) < MaxWindow
  /\ ListenerPushes

NextWindow ==
  \/ WindowSample
  \/ TimePasses
  \/ CheckStabilization
  \/ HandleCalibrationClick
  \/ AdvanceTimer
  \/ DoneTimer

SpecWindow == InitWindow /\ [][NextWindow]_vars

\* A step in which handleStabilized accepted the current point: it armed the
\* advance timeout or the completion timeout
PointAccepted ==
  \/ Len(advanceTimers') > Len(advanceTimers)
  \/ doneTimers' > doneTimers

\* C15: in a run the points are accepted in the order 0, 1, ..., n-1, each once:
\* a point is accepted only when the last recorded point is the one before it,
\* the acceptance records it, and onComplete is called only after the last
\* point has been recorded.
C15_PointsAcceptedInOrderOnce ==
  [][/\ PointAccepted => /\ lastRecorded = calibrationStep - 1
                         /\ lastRecorded' = calibrationStep
     /\ onCompleteCalls' > onCompleteCalls =>
          lastRecorded = Len(calibrationPoints) - 1]_vars

\* The average of the buffered samples, the last five at most, lies within
\* 50px of the pixel position of the current target
Within50 ==
  LET recent == LastN(gazeSamplesRef, 5)
      n      == Len(recent)
      target == TargetOf(calibrationPoints, calibrationStep)
      dx     == SumSeq([i \in 1..n |-> recent[i].x]) - n * target.x
      dy     == SumSeq([i \in 1..n |-> recent[i].y]) - n * target.y
  IN dx * dx + dy * dy <= (50 * n) * (50 * n)

\* C16: a stabilization check accepts the point only with at least 3 samples,
\* the average within 50px and a clock that has run 400ms; a check that finds
\* the average outside unsets the clock; and the clock is set only by a check
\* that finds the average within, from zero, and then only grows with time.
C16_AcceptedOnlyAfterStableWindow ==
  [][/\ (CheckStabilization /\ PointAccepted) =>
          /\ Len(gazeSamplesRef) >= 3
          /\ Within50
          /\ stabilizationStartRef # NULL
          /\ stabilizationStartRef >= 400
     /\ (CheckStabilization /\ hasWebgazer /\ Len(gazeSamplesRef) >= 3 /\ ~Within50) =>
          stabilizationStartRef' = NULL
     /\ (stabilizationStartRef' # NULL /\ stabilizationStartRef' # stabilizationStartRef) =>
          \/ /\ stabilizationStartRef = NULL
             /\ stabilizationStartRef' = 0
             /\ CheckStabilization
             /\ Len(gazeSamplesRef) >= 3
             /\ Within50
          \/ /\ stabilizationStartRef # NULL
             /\ stabilizationStartRef' > stabilizationStartRef
             /\ UNCHANGED <<gazeSamplesRef, calibrationStep, lastRecorded>>]_vars

\* Witness of C16: the point was accepted on the average of the last five
\* samples, 400ms after the clock started, with an off-target sample before them
C16_Witness ==
  /\ Len(gazeSamplesRef) = 9
  /\ gazeSamplesRef[4] # gazeSamplesRef[3]
  /\ gazeSamplesRef[5] = gazeSamplesRef[3]
  /\ stabilizationStartRef = 400
  /\ StabilizationIntervalLive
  /\ lastRecorded = calibrationStep
  /\ acceptedVia = "check"
  /\ Len(advanceTimers) > 0

\* The target button of the current point is on screen and the recorder exists
TargetClickable ==
  /\ isOpen
  /\ phase = "calibrating"
  /\ countdownValue = NULL
  /\ hasWebgazer

\* The timeout that handleStabilized schedules for the current step is pending
\* after the step
ScheduledForStep ==
  IF calibrationStep < Len(calibrationPoints) - 1
  THEN /\ \E i \in 1..Len(advanceTimers') : advanceTimers'[i] = calibrationStep
       /\ Len(advanceTimers') = Len(advanceTimers) + 1
  ELSE doneTimers' = doneTimers + 1

C5_CountdownSamplesDiscarded ==
  StabilizationIntervalLive =>
    \A i \in 1..Len(gazeSamplesRef) : ~gazeSamplesRef[i].inCountdown

\* C6: closing the modal returns the engine to idle at point 0 with an empty
\* buffer, and while it stays closed no timer of the modal has any effect.
C6_CloseStopsAllTimers ==
  [][/\ (isOpen /\ ~isOpen') =>
          phase' = "idle" /\ calibrationStep' = 0 /\ gazeSamplesRef' = <<>>
     /\ (~isOpen /\ ~isOpen') =>
          UNCHANGED <<phase, calibrationStep, countdownValue, isStabilizing,
                      onCompleteCalls>>]_vars

\* The countdown intervals that are running, with or without a handle
LiveCountdowns == (IF countdownTimerRef # NULL THEN 1 ELSE 0) + Len(strayCountdowns)

\* C34: at most one countdown interval is live at any time, and every live one
\* is the one countdownTimerRef holds, so that it is cleared when it ends or
\* when the modal closes: no interval is left running without a handle, where
\* it could later set isStabilizing or clear another point's countdown.
C34_OneCountdownTimer ==
  /\ LiveCountdowns <= 1
  /\ strayCountdowns = <<>>

(***************************************************************************)
(* Specification SpecClick: the click-driven CalibrationModal, in its       *)
(* 17-point version with a fixation timer and its 9-point predecessor       *)
(***************************************************************************)
\* Viewport sizes (width, height) in pixels; the corner circle has radius 40
Viewports == { [width |-> 2000, height |-> 1000], [width |-> 1000, height |-> 800] }

CIRCLE_RADIUS == 40

\* getCornerOffset, in hundredths of a percent
getCornerOffset(viewport) ==
  [x |-> (CIRCLE_RADIUS * 10000) \div viewport.width,
   y |-> (CIRCLE_RADIUS * 10000) \div viewport.height]

\* components/CalibrationModal.tsx: corners, edges, inner points, center last
\* (coordinates in hundredths of a percent)
Grid17(off) ==
  << Pt(off.x, off.y), Pt(10000 - off.x, off.y),
     Pt(off.x, 10000 - off.y), Pt(10000 - off.x, 10000 - off.y),
     Pt(3333, off.y), Pt(6667, off.y),
     Pt(off.x, 3333), Pt(off.x, 6667),
     Pt(10000 - off.x, 3333), Pt(10000 - off.x, 6667),
     Pt(3333, 10000 - off.y), Pt(6667, 10000 - off.y),
     Pt(3333, 3333), Pt(6667, 3333), Pt(3333, 6667), Pt(6667, 6667),
     Pt(5000, 5000) >>

\* The 9-point predecessor: the center is the third point
Grid9 ==
  << Pt(1000, 1000), Pt(9000, 1000), Pt(5000, 5000),
     Pt(1000, 9000), Pt(9000, 9000), Pt(5000, 1000),
     Pt(5000, 9000), Pt(1000, 5000), Pt(9000, 5000) >>

ClickPoints == IF clickVariant = "grid17" THEN Grid17(cornerOffset) ELSE Grid9

ClickCenter == Pt(5000, 5000)

InitClick ==
  /\ clickVariant \in {"grid17", "grid9", "gazeCloud"}
  /\ clickOpen = FALSE
  /\ clickStep = 0
  /\ isCalibrating = FALSE
  /\ isPointReady = FALSE
  /\ fixationTimerRef = FALSE
  /\ \E viewport \in Viewports : cornerOffset = getCornerOffset(viewport)
  /\ webgazerReady \in BOOLEAN
  /\ clickDoneTimers = 0
  /\ clickRecorded = -1
  /\ clickCompletes = 0
  /\ modalError = "null"
  /\ deniedInRun = FALSE
  /\ CalRest
  /\ WordRest
  /\ PageRest
  /\ StabRest

\* The fixation effect of the 17-point modal: while calibrating and open, every
\* change of its dependencies clears readiness and restarts the 1.5 s timer
FixationEffect(open, calibrating) == clickVariant = "grid17" /\ open /\ calibrating

ClickOpenModal ==
  /\ ~clickOpen
  /\ clickOpen' = TRUE
  /\ isPointReady' = IF FixationEffect(TRUE, isCalibrating) THEN FALSE ELSE isPointReady
  /\ fixationTimerRef' = IF FixationEffect(TRUE, isCalibrating) THEN TRUE ELSE fixationTimerRef
  /\ UNCHANGED <<clickVariant, clickStep, isCalibrating, cornerOffset, webgazerReady,
                 clickDoneTimers, clickRecorded, clickCompletes, modalError, deniedInRun>>
  /\ UNCHANGED <<calVars, wordVars, pageVars, stabVars>>

\* isOpen becomes false: the reset effect
ClickCloseModal ==
  /\ clickOpen
  /\ clickOpen' = FALSE
  /\ clickStep' = 0
  /\ isCalibrating' = FALSE
  /\ isPointReady' = FALSE
  /\ fixationTimerRef' = FALSE
  /\ modalError' = "null"
  /\ deniedInRun' = FALSE
  /\ UNCHANGED <<clickVariant, cornerOffset, webgazerReady, clickDoneTimers,
                 clickRecorded, clickCompletes>>
  /\ UNCHANGED <<calVars, wordVars, pageVars, stabVars>>

\* window resize: updateCornerOffset
ResizeWindow ==
  /\ clickVariant = "grid17"
  /\ \E viewport \in Viewports :
       /\ getCornerOffset(viewport) # cornerOffset
       /\ cornerOffset' = getCornerOffset(viewport)
  /\ UNCHANGED <<clickVariant, clickOpen, clickStep, isCalibrating, isPointReady,
                 fixationTimerRef, webgazerReady, clickDoneTimers, clickRecorded,
                 clickCompletes, modalError, deniedInRun>>
  /\ UNCHANGED <<calVars, wordVars, pageVars, stabVars>>

\* The WebGazer script finishes loading
WebgazerBecomesReady ==
  /\ ~webgazerReady
  /\ webgazerReady' = TRUE
  /\ UNCHANGED <<clickVariant, clickOpen, clickStep, isCalibrating, isPointReady,
                 fixationTimerRef, cornerOffset, clickDoneTimers, clickRecorded,
                 clickCompletes, modalError, deniedInRun>>
  /\ UNCHANGED <<calVars, wordVars, pageVars, stabVars>>

\* handleStartCalibration (the start card is shown while not calibrating)
ClickStartCalibration ==
  /\ clickOpen
  /\ ~isCalibrating
  /\ IF clickVariant = "grid17" /\ ~webgazerReady
     THEN UNCHANGED <<isCalibrating, clickStep, isPointReady, fixationTimerRef,
                      clickRecorded, clickCompletes, modalError, deniedInRun>>
     ELSE /\ isCalibrating' = TRUE
          /\ clickStep' = 0
          /\ isPointReady' = FALSE
          /\ fixationTimerRef' = FixationEffect(clickOpen, TRUE)
          /\ clickRecorded' = -1
          /\ clickCompletes' = 0
          /\ modalError' = "null"
          /\ deniedInRun' = FALSE
  /\ UNCHANGED <<clickVariant, clickOpen, cornerOffset, webgazerReady, clickDoneTimers>>
  /\ UNCHANGED <<calVars, wordVars, pageVars, stabVars>>

\* The 1.5 s fixation timeout fires
FixationTimer ==
  /\ fixationTimerRef
  /\ isPointReady' = TRUE
  /\ fixationTimerRef' = FALSE
  /\ UNCHANGED <<clickVariant, clickOpen, clickStep, isCalibrating, cornerOffset,
                 webgazerReady, clickDoneTimers, clickRecorded, clickCompletes, modalError, deniedInRun>>
  /\ UNCHANGED <<calVars, wordVars, pageVars, stabVars>>

\* A guard that looks at the step only
ClickAccepted_IgnoresReadiness(index) == clickStep = index

\* The guard at the top of handleCalibrationClick
ClickAccepted(index) ==
  IF clickVariant = "grid17"
  THEN clickStep = index /\ isPointReady
  ELSE clickStep = index

\* handleCalibrationClick(index) on one of the rendered point buttons
ClickCalibrationPoint ==
  /\ clickOpen
  /\ isCalibrating
  /\ \E index \in 0..(Len(ClickPoints) - 1) :
       IF ~ClickAccepted(index) \/ (clickVariant = "grid17" /\ ~webgazerReady)
       THEN UNCHANGED <<clickStep, isPointReady, fixationTimerRef, clickDoneTimers,
                        clickRecorded>>
       ELSE /\ clickRecorded' = IF webgazerReady THEN index ELSE clickRecorded
            /\ IF clickStep < Len(ClickPoints) - 1
               THEN /\ clickStep' = clickStep + 1
                    /\ isPointReady' = IF FixationEffect(clickOpen, isCalibrating)
                                       THEN FALSE ELSE isPointReady
                    /\ fixationTimerRef' = FixationEffect(clickOpen, isCalibrating)
                    /\ UNCHANGED clickDoneTimers
               ELSE /\ clickDoneTimers < MaxDone
                    /\ clickDoneTimers' = clickDoneTimers + 1
                    /\ UNCHANGED <<clickStep, isPointReady, fixationTimerRef>>
  /\ UNCHANGED <<clickVariant, clickOpen, isCalibrating, cornerOffset, webgazerReady,
                 clickCompletes, modalError, deniedInRun>>
  /\ UNCHANGED <<calVars, wordVars, pageVars, stabVars>>

\* The 500 ms timeout of the last point fires: onComplete()
ClickDoneTimer ==
  /\ clickDoneTimers > 0
  /\ clickCompletes < MaxCompletes
  /\ clickDoneTimers' = clickDoneTimers - 1
  /\ clickCompletes' = clickCompletes + 1
  /\ UNCHANGED <<clickVariant, clickOpen, clickStep, isCalibrating, isPointReady,
                 fixationTimerRef, cornerOffset, webgazerReady, clickRecorded, modalError, deniedInRun>>
  /\ UNCHANGED <<calVars, wordVars, pageVars, stabVars>>

\* GazeCloudAPI.OnCamDenied / OnError while the source is tracking for the
\* modal: the service forwards to the callback the modal registered, setError
SourceFailures == {"denied", "error"}

SourceReportsFailure ==
  /\ clickVariant = "gazeCloud"
  /\ clickOpen /\ isCalibrating /\ webgazerReady
  /\ \E failure \in SourceFailures :
       /\ modalError' = failure
       /\ deniedInRun' = (deniedInRun \/ failure = "denied")
  /\ UNCHANGED <<clickVariant, clickOpen, clickStep, isCalibrating, isPointReady,
                 fixationTimerRef, cornerOffset, webgazerReady, clickDoneTimers,
                 clickRecorded, clickCompletes>>
  /\ UNCHANGED <<calVars, wordVars, pageVars, stabVars>>

\* GazeCloudAPI.OnCalibrationComplete while the source is tracking for the
\* modal: the callback the modal registered, setCalibrationStep(numPoints)
SourceCalibrationComplete ==
  /\ clickVariant = "gazeCloud"
  /\ clickOpen /\ isCalibrating /\ webgazerReady
  /\ clickStep # Len(ClickPoints)
  /\ clickStep' = Len(ClickPoints)
  /\ UNCHANGED <<clickVariant, clickOpen, isCalibrating, isPointReady, fixationTimerRef,
                 cornerOffset, webgazerReady, clickDoneTimers, clickRecorded,
                 clickCompletes, modalError, deniedInRun>>
  /\ UNCHANGED <<calVars, wordVars, pageVars, stabVars>>

\* The Close link of the error card shown while calibrating
DismissError ==
  /\ clickOpen /\ isCalibrating /\ modalError # "null"
  /\ modalError' = "null"
  /\ isCalibrating' = FALSE
  /\ UNCHANGED <<clickVariant, clickOpen, clickStep, isPointReady, fixationTimerRef,
                 cornerOffset, webgazerReady, clickDoneTimers, clickRecorded,
                 clickCompletes, deniedInRun>>
  /\ UNCHANGED <<calVars, wordVars, pageVars, stabVars>>

NextClick ==
  \/ ClickOpenModal
  \/ ClickCloseModal
  \/ ResizeWindow
  \/ WebgazerBecomesReady
  \/ ClickStartCalibration
  \/ FixationTimer
  \/ ClickCalibrationPoint
  \/ ClickDoneTimer
  \/ SourceReportsFailure
  \/ SourceCalibrationComplete
  \/ DismissError

SpecClick == InitClick /\ [][NextClick]_vars

\* C13: when start-calibration is invoked while the gaze source is not ready,
\* the modal stays idle: isCalibrating stays false, the step stays 0, no
\* fixation timer is started and no point is recorded.
C13_NotReadyStartFailsFast ==
  [][(~webgazerReady /\ ClickStartCalibration) =>
       /\ ~isCalibrating'
       /\ clickStep' = 0
       /\ ~fixationTimerRef'
       /\ clickRecorded' = clickRecorded]_vars

\* C14: once the source has reported a camera denial in a run, no further
\* point is accepted, no completion is scheduled and onComplete is not invoked
\* until calibration is started again or the modal is closed.
C14_DenialEndsRun ==
  [][(deniedInRun /\ deniedInRun') =>
       /\ clickStep' = clickStep
       /\ clickRecorded' = clickRecorded
       /\ clickDoneTimers' <= clickDoneTimers
       /\ clickCompletes' = clickCompletes]_vars

\* C4: in every calibration run the last target visited, the one whose click
\* schedules onComplete, is the center point (50%, 50%).
C4_CenterVisitedLast ==
  (isCalibrating /\ clickDoneTimers > 0) => ClickPoints[clickStep + 1] = ClickCenter

\* C35: while a calibration modal is calibrating, the step index stays within
\* the calibration points: 0 <= calibrationStep < number of points, in every
\* reachable state, whatever the source calls back.
C35_StepWithinPoints ==
  (clickOpen /\ isCalibrating) => (0 <= clickStep /\ clickStep < Len(ClickPoints))

\* C33: onComplete is invoked at most once per calibration run: once the last
\* point has been accepted, further clicks on it and further stabilization
\* checks during the completion delay schedule no second completion, so at
\* most one completion timeout is pending and at most one onComplete is made.
C33_CompletesAtMostOnce ==
  /\ clickVariant = "grid17" => (clickDoneTimers <= 1 /\ clickCompletes <= 1)
  /\ doneTimers <= 1

\* C30: in the 17-point click-driven modal a click on a point button changes
\* something (records a point, moves the step, resets readiness, schedules the
\* completion) only if the target's fixation window has elapsed (isPointReady)
\* and the clicked button is the current target; every other click leaves the
\* recorded point, the step, the readiness and the completion timers alone.
C30_ClickNeedsReadyCurrentTarget ==
  [][(/\ clickVariant = "grid17"
      /\ ClickCalibrationPoint
      /\ <<clickStep, isPointReady, fixationTimerRef, clickDoneTimers, clickRecorded>>'
           # <<clickStep, isPointReady, fixationTimerRef, clickDoneTimers, clickRecorded>>)
       => /\ isPointReady
          /\ ~fixationTimerRef
          /\ clickRecorded' = clickStep]_vars

\* Witness of C30: after two accepted clicks the third target's fixation
\* window is running, so clicks on it and on the other buttons are ignored
C30_Witness ==
  /\ clickVariant = "grid17"
  /\ clickOpen /\ isCalibrating /\ webgazerReady
  /\ clickStep = 2
  /\ clickRecorded = 1
  /\ ~isPointReady
  /\ fixationTimerRef

====
